---------------------------- MODULE Spec2Model ----------------------------
(***************************************************************************)
(* Model of the multi-account Telegram orchestrator of LocalBackendServer: *)
(*   TelegramAccountManager  src/src/services/telegram/                    *)
(*                           telegram-account-manager.js                   *)
(*   TelegramSession         src/src/services/file-service/file-service.js *)
(*   TelegramService,                                                      *)
(*   TelegramTaskManager     src/unnamed/part_005                          *)
(*                                                                         *)
(* Strings of the program that the code inspects character by character    *)
(* (phone numbers, account ids) are sequences of one-character strings.    *)
(* JavaScript null is the value Null; a value is falsy when it is null or  *)
(* the empty string.  File writes are taken to succeed.                    *)
(***************************************************************************)
EXTENDS Integers, Sequences, FiniteSets, TLC

\* ------------------------------------------------------------- bounds
MaxAccounts == 2
MaxSessions == 3
MaxStateIds == 2
MaxPending == 2
MaxTasks == 1
MaxJobs == 3
MaxFirings == 2
MaxListeners == 2
MaxMessages == 2
MaxRuns == 1

\* ------------------------------------------------------------- values
Null == <<"null">>

Digits == {"0", "1", "2", "3", "4", "5", "6", "7", "8", "9"}

\* Phone numbers handed to addAccount: two spellings of the number 1, the
\* number 2, and a string without any digit.
Phones == { <<"+", "1">>, <<"1">>, <<"2">>, <<"+">> }

IsDigit(c) == c \in Digits

\* phone.replace(/[^0-9]/g, '')
makeAccountId(phone) == SelectSeq(phone, IsDigit)

AccountIds == { makeAccountId(p) : p \in Phones }

\* !x for a string-or-null value
Falsy(x) == x = Null \/ x = <<>>

\* a || b
OrElse(a, b) == IF Falsy(a) THEN b ELSE a

Range(s) == { s[i] : i \in DOMAIN s }

\* The phone handed to sendCode
LoginPhones == { <<"+", "1">> }

\* Login codes: what randomDigits or the server draws, and what a caller
\* submits (a code, a code with a leading blank, or nothing)
Codes == { <<"7">> }
SubmittedCodes == Codes \cup { <<" ", "7">>, <<"8">>, Null }

\* Two-step passwords a caller submits (or nothing); the server accepts one
Passwords == { <<"p">>, <<"q">>, Null }
ServerPassword == <<"p">>

\* What a caller of verify submits: a code, or a two-step password
VerifyInputs ==
  { <<c, Null>> : c \in SubmittedCodes } \cup { <<Null, pw>> : pw \in Passwords }

\* The accountId argument of the login calls: none (the active account),
\* the id of the login account, an id that is not registered
LoginAccountArgs ==
  {Null, <<"2">>} \cup { makeAccountId(p) : p \in LoginPhones }

RECURSIVE TrimLeft(_)
TrimLeft(str) ==
  IF str # <<>> /\ Head(str) = " " THEN TrimLeft(Tail(str)) ELSE str

RECURSIVE TrimRight(_)
TrimRight(str) ==
  IF str # <<>> /\ str[Len(str)] = " "
    THEN TrimRight(SubSeq(str, 1, Len(str) - 1))
    ELSE str

\* String(code).trim() of a code that was given
Trim(str) == TrimRight(TrimLeft(str))

\* String(code || '').trim()
TrimOrEmpty(code) == IF Falsy(code) THEN <<>> ELSE Trim(code)

\* The phones of the accounts tasks run on, in the order they are added
TaskPhones == << <<"1">>, <<"2">> >>

\* Cron expressions, as text: "30 8 * * *", "x", "0 0 11 * * *"
FiveFieldCron == <<"3", "0", " ", "8", " ", "*", " ", "*", " ", "*">>
BadCron == <<"x">>
DefaultCron == <<"0", " ", "0", " ", "1", "1", " ", "*", " ", "*", " ", "*">>
\* the fields cron.validate accepts
CronTokens == { <<"0">>, <<"8">>, <<"1", "1">>, <<"3", "0">>, <<"*">> }

\* text.split(/\s+/), scanning from position i: cur is the field being
\* read, out the fields read, inGap whether text[i-1] was white space
RECURSIVE SplitFrom(_, _, _, _, _)
SplitFrom(text, i, cur, out, inGap) ==
  IF i > Len(text) THEN Append(out, cur)
  ELSE IF text[i] = " "
    THEN IF inGap THEN SplitFrom(text, i + 1, cur, out, TRUE)
         ELSE SplitFrom(text, i + 1, <<>>, Append(out, cur), TRUE)
  ELSE SplitFrom(text, i + 1, Append(cur, text[i]), out, FALSE)

SplitFields(text) == SplitFrom(text, 1, <<>>, <<>>, FALSE)

\* the cron texts whose normalization is followed: up to MaxCronFields
\* fields, separated by one or two blanks, with or without blanks around
MaxCronFields == 6
FieldTokens == { <<"*">>, <<"8">>, <<"3", "0">>, <<"x">> }

RECURSIVE Join(_, _)
Join(fields, sep) ==
  IF Len(fields) = 0 THEN <<>>
  ELSE IF Len(fields) = 1 THEN fields[1]
  ELSE fields[1] \o sep \o Join(Tail(fields), sep)

CronTexts ==
  { pad \o Join(fields, sep) \o pad :
      fields \in UNION { [1..n -> FieldTokens] : n \in 1..MaxCronFields },
      sep \in { <<" ">>, <<" ", " ">> },
      pad \in { <<>>, <<" ">> } }

\* The channels listen tasks watch
Channels == { "c" }

\* A channel a listen task is moved to by an update
OtherChannels == { "d" }

\* monitorChannel: iterMessages(entity, { limit: 30 })
FetchLimit == 30

\* taskData.field, with what the code takes for a field that is not given
Field(data, f, default) == IF f \in DOMAIN data THEN data[f] ELSE default

\* { ...original, ...updates }
Merge(original, updates) ==
  [f \in DOMAIN original \cup DOMAIN updates |->
     IF f \in DOMAIN updates THEN updates[f] ELSE original[f]]

\* What callers hand to createTask and updateTask
SendTaskInputs ==
  { [type |-> "send"],
    [type |-> "send", runOnce |-> TRUE],
    [type |-> "send", cron |-> BadCron],
    [type |-> "send", enabled |-> FALSE, cron |-> BadCron],
    [type |-> "send", cron |-> FiveFieldCron, accountId |-> <<"2">>] }

ListenTaskInputs ==
  { [type |-> "listen", channel |-> "c"],
    [type |-> "listen", channel |-> "c", enabled |-> FALSE],
    [type |-> "listen", channel |-> "c", accountId |-> <<"2">>] }

UpdateInputs ==
  { [enabled |-> TRUE], [enabled |-> FALSE], [runOnce |-> FALSE] }

\* an update that turns a task into a listen task
RetypeInput == [type |-> "listen", channel |-> "c"]

\* updates that change the channel of a listen task
RechannelInputs == { [channel |-> d] : d \in OtherChannels }

\* ------------------------------------------------------------- state
VARIABLES
  tasks,            \* TelegramTaskManager.tasks
  tasksFile,        \* content of data/telegram-tasks.json
  nextTaskId,       \* number of task ids makeTaskId has produced
  jobs,             \* the cron jobs cron.schedule has created, by identity:
                    \*   the task captured by the callback, stopped or not
  scheduled,        \* TelegramTaskManager.scheduled: Map taskId -> job
  firing,           \* cron callbacks awaiting executeCallback
  listeners,        \* the monitorChannel loops started, by identity: task,
                    \*   Session, shouldStop, lastMessageId, position
  activeListeners,  \* TelegramService.activeListeners: Map taskId -> listener
  listenedMessageIds, \* Map listenTaskId -> Set of message ids
  channel,          \* per channel: the id of its newest message
  notified,         \* history: notifications sent per task and message id
  deletedAt,        \* history: per deleted listen task, the newest message
                    \*          id of its channel when deleteTask returned
  runs,             \* runTaskNow calls awaiting getHealth
  enabledReal,      \* TelegramSession.enabledReal (the same config for all)
  mockSessions,     \* per Session instance: Map stateId -> login info
  nextStateId,      \* number of stateIds makeStateId has produced
  server,           \* per stateId: the code the server sent to the phone
                    \*   and whether the account has a two-step password
  pending,          \* verify calls awaiting the server's reply
  accounts,         \* Map accountId -> account, in insertion order
  activeAccountId,  \* this.activeAccountId
  sessions,         \* Map accountId -> TelegramSession instance
  accountsFile,     \* content of data/telegram-accounts.json
  nextSid,          \* number of TelegramSession instances constructed so far
  handedOut,        \* history: instances getSession returned per account
                    \*          since the account was last removed
  healthCall,       \* the getAllAccountsHealth call: where it is in its
                    \*   loop over the accounts, and the records pushed
  transport,        \* one TelegramSession: whether it has a client, its
                    \*   connected flag, whether its login is completed
  sendCall,         \* the sendMessage call on that Session
  probe,            \* a getHealth call on that Session, in its
                    \*   ensureConnected
  loadCall,         \* the loading of the accounts file at construction:
                    \*   where loadAccounts is, and the delayed reloads
  ret               \* what the last call returned or threw

accountVars == <<accounts, activeAccountId, sessions, accountsFile, nextSid,
                 handedOut>>

loginVars == <<enabledReal, mockSessions, nextStateId, server, pending>>

taskVars == <<tasks, tasksFile, nextTaskId>>

cronVars == <<jobs, scheduled, firing>>

listenVars == <<listeners, activeListeners, listenedMessageIds, channel,
                notified, deletedAt>>

orchestratorVars == <<taskVars, cronVars, listenVars, runs>>

callVars == <<healthCall, transport, sendCall, probe, loadCall>>

vars == <<accounts, activeAccountId, sessions, accountsFile, nextSid,
          handedOut, ret, loginVars, orchestratorVars, callVars>>

\* ------------------------------------------------------------- accounts
\* this.accounts.has(id)
HasAccount(id) == \E i \in DOMAIN accounts : accounts[i].id = id

AccountIndex(id) == CHOOSE i \in DOMAIN accounts : accounts[i].id = id

\* this.accounts.delete(id)
WithoutAccount(accs, id) ==
  LET keep(a) == a.id # id IN SelectSeq(accs, keep)

ActiveIds(accs) == { accs[i].id : i \in { j \in DOMAIN accs : accs[j].active } }

\* the account id getSession works with: accountId, or the active account
\* when accountId is falsy
ResolveAccountId(accountId) == OrElse(accountId, activeAccountId)

\* getSession finds nothing to return
NoSessionFor(accountId) ==
  LET id == ResolveAccountId(accountId) IN Falsy(id) \/ ~HasAccount(id)

\* addAccount: the duplicate check, on the id derived from the phone
AlreadyRegisteredByPhone(phone) == \E i \in DOMAIN accounts : accounts[i].phone = phone

AlreadyRegistered(phone) == HasAccount(makeAccountId(phone))

\* addAccount: the new account object
NewAccount(phone) ==
  [id |-> makeAccountId(phone), phone |-> phone, active |-> Len(accounts) = 0]

\* addAccount: the first account becomes the active one
ActiveAfterAdd(account) ==
  IF account.active THEN account.id ELSE activeAccountId

\* removeAccount: the accounts left, the first of them promoted when the
\* removed account was the active one
AccountsAfterRemove(accountId) ==
  LET rest == WithoutAccount(accounts, accountId) IN
  IF activeAccountId = accountId /\ Len(rest) > 0
    THEN [rest EXCEPT ![1].active = TRUE]
    ELSE rest

ActiveAfterRemove(accountId) ==
  LET rest == WithoutAccount(accounts, accountId) IN
  IF activeAccountId = accountId
    THEN (IF Len(rest) > 0 THEN rest[1].id ELSE Null)
    ELSE activeAccountId

\* switchAccount: active cleared on every account, then set on the target
AccountsAfterSwitchNoClear(accountId) ==
  [accounts EXCEPT ![AccountIndex(accountId)].active = TRUE]

AccountsAfterSwitch(accountId) ==
  [i \in DOMAIN accounts |-> [accounts[i] EXCEPT !.active = (accounts[i].id = accountId)]]

\* the state before the accounts file is looked at
InitOther ==
  /\ accounts = <<>>
  /\ activeAccountId = Null
  /\ sessions = <<>>
  /\ nextSid = 0
  /\ handedOut = [a \in AccountIds |-> {}]
  /\ enabledReal \in BOOLEAN
  /\ mockSessions = [sid \in 1..MaxSessions |-> <<>>]
  /\ nextStateId = 0
  /\ server = <<>>
  /\ pending = <<>>
  /\ tasks = <<>>
  /\ tasksFile = <<>>
  /\ nextTaskId = 0
  /\ jobs = <<>>
  /\ scheduled = <<>>
  /\ firing = <<>>
  /\ listeners = <<>>
  /\ activeListeners = <<>>
  /\ listenedMessageIds = <<>>
  /\ channel = [c \in Channels \cup OtherChannels |-> 0]
  /\ notified = [t \in 1..MaxTasks, m \in 1..MaxMessages |-> 0]
  /\ deletedAt = <<>>
  /\ runs = <<>>
  /\ healthCall = [pc |-> "idle", idx |-> 0, n0 |-> 0, result |-> <<>>]
  /\ transport = [client |-> enabledReal, connected |-> FALSE, saved |-> FALSE,
                  authorized |-> FALSE]
  /\ sendCall = [pc |-> "idle", attempt |-> 0]
  /\ probe = [pc |-> "idle", attempt |-> 0]

\* the state after construction with an accounts file that holds no account
InitState ==
  /\ InitOther
  /\ accountsFile = <<>>
  /\ loadCall = [pc |-> "idle", attempt |-> 0, reloads |-> 0, armed |-> FALSE,
                 wait |-> 0]

Init == InitState /\ ret = [op |-> "init"]

\* getSession: the instance memoized for the account id, 0 when there is none
Memoized(id) ==
  IF \E e \in Range(sessions) : e.id = id
    THEN (CHOOSE e \in Range(sessions) : e.id = id).sid
    ELSE 0

\* getSession: the instance it returns (0 for null), the memoized one or a
\* newly constructed one
SessionOf(accountId) ==
  IF NoSessionFor(accountId) THEN 0
  ELSE IF Memoized(ResolveAccountId(accountId)) # 0
    THEN Memoized(ResolveAccountId(accountId))
    ELSE nextSid + 1

\* getSession: what it does to the registry
GetSessionEffect(accountId) ==
  LET id == ResolveAccountId(accountId)
      sid == SessionOf(accountId) IN
  IF sid = 0
    THEN UNCHANGED <<sessions, nextSid, handedOut>>
    ELSE /\ sid <= MaxSessions
         /\ handedOut' = [handedOut EXCEPT ![id] = @ \cup {sid}]
         /\ IF sid = nextSid + 1
              THEN /\ nextSid' = sid
                   /\ sessions' = Append(WithoutAccount(sessions, id),
                                         [id |-> id, sid |-> sid])
              ELSE UNCHANGED <<sessions, nextSid>>

\* TelegramAccountManager.getSession(accountId)
GetSession(accountId) ==
  /\ GetSessionEffect(accountId)
  /\ ret' = [op |-> "getSession", arg |-> accountId, session |-> SessionOf(accountId)]
  /\ UNCHANGED <<accounts, activeAccountId, accountsFile>>

\* TelegramAccountManager.addAccount(phone, name)
AddAccount(phone) ==
  LET account == NewAccount(phone) IN
  IF AlreadyRegistered(phone)
    THEN /\ ret' = [op |-> "addAccount", arg |-> phone, ok |-> FALSE,
                    error |-> "already exists"]
         /\ UNCHANGED accountVars
    ELSE /\ Len(accounts) < MaxAccounts
         /\ accounts' = Append(accounts, account)
         /\ activeAccountId' = ActiveAfterAdd(account)
         /\ accountsFile' = accounts'
         /\ ret' = [op |-> "addAccount", arg |-> phone, ok |-> TRUE,
                    error |-> "none"]
         /\ UNCHANGED <<sessions, nextSid, handedOut>>

\* TelegramAccountManager.removeAccount(accountId)
RemoveAccount(accountId) ==
  IF ~HasAccount(accountId)
    THEN /\ ret' = [op |-> "removeAccount", arg |-> accountId, ok |-> FALSE]
         /\ UNCHANGED accountVars
    ELSE /\ sessions' = WithoutAccount(sessions, accountId)
         /\ accounts' = AccountsAfterRemove(accountId)
         /\ activeAccountId' = ActiveAfterRemove(accountId)
         /\ accountsFile' = accounts'
         /\ handedOut' = [handedOut EXCEPT ![accountId] = {}]
         /\ ret' = [op |-> "removeAccount", arg |-> accountId, ok |-> TRUE]
         /\ UNCHANGED nextSid

\* TelegramAccountManager.switchAccount(accountId)
ManagerSwitchAccountClearFirst(accountId) ==
  IF ~HasAccount(accountId)
    THEN /\ ret' = [op |-> "switchAccount", arg |-> accountId, ok |-> FALSE]
         /\ accounts' = [i \in DOMAIN accounts |-> [accounts[i] EXCEPT !.active = FALSE]]
         /\ UNCHANGED <<activeAccountId, accountsFile, sessions, nextSid, handedOut>>
    ELSE /\ accounts' = AccountsAfterSwitch(accountId)
         /\ activeAccountId' = accountId
         /\ accountsFile' = accounts'
         /\ ret' = [op |-> "switchAccount", arg |-> accountId, ok |-> TRUE]
         /\ UNCHANGED <<sessions, nextSid, handedOut>>

ManagerSwitchAccount(accountId) ==
  IF ~HasAccount(accountId)
    THEN /\ ret' = [op |-> "switchAccount", arg |-> accountId, ok |-> FALSE]
         /\ UNCHANGED accountVars
    ELSE /\ accounts' = AccountsAfterSwitch(accountId)
         /\ activeAccountId' = accountId
         /\ accountsFile' = accounts'
         /\ ret' = [op |-> "switchAccount", arg |-> accountId, ok |-> TRUE]
         /\ UNCHANGED <<sessions, nextSid, handedOut>>

\* ------------------------------------------------------ loadAccounts
\* loadAccounts: const maxAttempts = 5
MaxAttempts == 5

\* constructor: retryDelays = [2000, 4000, 8000], one timer for each
ReloadTimers == 3

\* what data/telegram-accounts.json can be when it is looked at: not there,
\* a text that JSON.parse rejects, the empty list, a list with an account
Absent == << [absent |-> TRUE] >>
Corrupt == << [corrupt |-> TRUE] >>
StoredAccounts ==
  << [id |-> makeAccountId(TaskPhones[1]), phone |-> TaskPhones[1], active |-> TRUE] >>

\* loadAccounts: syncSleep(baseDelay * attempt), baseDelay = 1000
LoadDelayMs(attempt) == 1000 * attempt

\* the empty file is written as soon as the file is found missing
CreatesFileAtOnce(attempt) == TRUE

\* loadAccounts: if (attempt < maxAttempts) { sleep; continue } else the
\* empty file is created
CreatesFile(attempt) == ~(attempt < MaxAttempts)

\* loadAccounts has returned; the constructor sets the three reload timers
\* after the first call when no account was loaded
Loaded(accs) ==
  [pc |-> "idle", attempt |-> loadCall.attempt, reloads |-> loadCall.reloads,
   armed |-> IF loadCall.reloads = 0 THEN Len(accs) = 0 ELSE loadCall.armed,
   wait |-> 0]

\* loadAccounts: after a failed attempt that is not the last
LoadSleeps ==
  [loadCall EXCEPT !.pc = "sleep", !.wait = LoadDelayMs(loadCall.attempt)]

\* the active account of a list that was read
ActiveOfList(list) ==
  IF \E i \in DOMAIN list : list[i].active
    THEN list[CHOOSE i \in DOMAIN list :
                /\ list[i].active
                /\ \A j \in DOMAIN list : list[j].active => j <= i].id
    ELSE activeAccountId

\* one pass of the loop of loadAccounts; readFails: readFileSync throws
LoadAttempt(readFails) ==
  /\ loadCall.pc = "try"
  /\ IF accountsFile = Absent
       THEN IF CreatesFile(loadCall.attempt)
              THEN /\ accountsFile' = <<>>
                   /\ loadCall' = Loaded(accounts)
                   /\ ret' = [op |-> "loadAccounts", attempt |-> loadCall.attempt,
                              wrote |-> TRUE, loaded |-> FALSE]
                   /\ UNCHANGED <<accounts, activeAccountId>>
              ELSE /\ loadCall' = LoadSleeps
                   /\ UNCHANGED <<accounts, activeAccountId, accountsFile, ret>>
       ELSE IF readFails \/ accountsFile = Corrupt
         THEN /\ IF loadCall.attempt < MaxAttempts
                   THEN loadCall' = LoadSleeps /\ UNCHANGED ret
                   ELSE /\ loadCall' = Loaded(accounts)
                        /\ ret' = [op |-> "loadAccounts", attempt |-> loadCall.attempt,
                                   wrote |-> FALSE, loaded |-> FALSE]
              /\ UNCHANGED <<accounts, activeAccountId, accountsFile>>
         ELSE /\ accounts' = accountsFile
              /\ activeAccountId' = ActiveOfList(accountsFile)
              /\ loadCall' = Loaded(accountsFile)
              /\ ret' = [op |-> "loadAccounts", attempt |-> loadCall.attempt,
                         wrote |-> FALSE, loaded |-> TRUE]
              /\ UNCHANGED accountsFile
  /\ UNCHANGED <<sessions, nextSid, handedOut>>

\* loadAccounts: syncSleep is over, the next pass begins
LoadSlept ==
  /\ loadCall.pc = "sleep"
  /\ loadCall' = [loadCall EXCEPT !.pc = "try", !.attempt = @ + 1, !.wait = 0]
  /\ UNCHANGED <<accountVars, ret>>

\* constructor: one of the reload timers expires; loadAccounts runs again
\* unless accounts have been loaded meanwhile
ReloadTimer ==
  /\ loadCall.pc = "idle" /\ loadCall.armed
  /\ loadCall.reloads < ReloadTimers
  /\ loadCall' = IF Len(accounts) > 0
                   THEN [loadCall EXCEPT !.reloads = @ + 1]
                   ELSE [loadCall EXCEPT !.reloads = @ + 1, !.pc = "try",
                                         !.attempt = 1]
  /\ UNCHANGED <<accountVars, ret>>

\* the disk or the mapped drive becomes ready: the file is there
DiskReady ==
  /\ accountsFile = Absent
  /\ accountsFile' = StoredAccounts
  /\ ret' = [op |-> "diskReady"]
  /\ UNCHANGED <<accounts, activeAccountId, sessions, nextSid, handedOut,
                 loadCall>>

\* ------------------------------------------------------------- login
\* this.mockSessions.has(stateId) of Session instance sid
HasLogin(sid, stateId) == stateId \in DOMAIN mockSessions[sid]

\* this.mockSessions.set(stateId, info) / s.status = status
WithLogin(sid, stateId, info) ==
  [mockSessions EXCEPT ![sid] = (stateId :> info) @@ @]

WithStatus(sid, stateId, status) ==
  WithLogin(sid, stateId, [mockSessions[sid][stateId] EXCEPT !.status = status])

\* this.mockSessions.delete(stateId)
WithoutLogin(sid, stateId) ==
  [mockSessions EXCEPT ![sid] =
     [k \in (DOMAIN @) \ {stateId} |-> @[k]]]

\* mock mode, status code_sent: !code || String(code).trim() !== s.code
MockCodeWrong(info, code) == Falsy(code) \/ Trim(code) # info.code

\* what the server answers to auth.SignIn for the login stateId
SignInReply(stateId, phoneCode) ==
  IF phoneCode # server[stateId].code THEN "PHONE_CODE_INVALID"
  ELSE IF server[stateId].twoStep THEN "SESSION_PASSWORD_NEEDED"
  ELSE "ok"

\* what the server answers to auth.CheckPassword
CheckPasswordReply(password) ==
  IF password = ServerPassword THEN "ok" ELSE "PASSWORD_HASH_INVALID"

\* every failed sign-in is taken for the request of a two-step password
NeedsPasswordAnyError(reply) == reply # "ok"

\* verify, sign-in failed: msg.includes('SESSION_PASSWORD_NEEDED')
NeedsPassword(reply) == reply = "SESSION_PASSWORD_NEEDED"

RemoveAt(seq, i) == SubSeq(seq, 1, i - 1) \o SubSeq(seq, i + 1, Len(seq))

\* TelegramService.sendCode(phone, accountId) -> TelegramSession.sendCode
SendCode(phone, accountId) ==
  LET sid == SessionOf(accountId)
      stateId == nextStateId + 1 IN
  /\ GetSessionEffect(accountId)
  /\ UNCHANGED <<accounts, activeAccountId, accountsFile, enabledReal, pending>>
  /\ IF sid = 0
       THEN /\ ret' = [op |-> "sendCode", ok |-> FALSE, error |-> "no session"]
            /\ UNCHANGED <<mockSessions, nextStateId, server>>
       ELSE IF ~enabledReal
         THEN \E code \in Codes :
                /\ nextStateId < MaxStateIds
                /\ nextStateId' = stateId
                /\ mockSessions' = WithLogin(sid, stateId,
                      [phone |-> phone, code |-> code, status |-> "code_sent"])
                /\ ret' = [op |-> "sendCode", ok |-> TRUE, stateId |-> stateId,
                           mode |-> "mock"]
                /\ UNCHANGED server
         ELSE \/ \E code \in Codes, twoStep \in BOOLEAN :
                   /\ nextStateId < MaxStateIds
                   /\ nextStateId' = stateId
                   /\ mockSessions' = WithLogin(sid, stateId,
                         [phone |-> phone, code |-> Null, status |-> "code_sent"])
                   /\ server' = (stateId :> [code |-> code, twoStep |-> twoStep]) @@ server
                   /\ ret' = [op |-> "sendCode", ok |-> TRUE, stateId |-> stateId,
                              mode |-> "real"]
              \/ /\ ret' = [op |-> "sendCode", ok |-> FALSE, error |-> "invoke failed"]
                 /\ UNCHANGED <<mockSessions, nextStateId, server>>

\* what verify throws or returns; kind and arg tell which credential the
\* call was judged on
VerifyError(stateId, kind, arg, error) ==
  [op |-> "verify", ok |-> FALSE, stateId |-> stateId, kind |-> kind,
   arg |-> arg, error |-> error]

VerifyOk(stateId, kind, arg, result) ==
  [op |-> "verify", ok |-> TRUE, stateId |-> stateId, kind |-> kind,
   arg |-> arg, result |-> result]

\* TelegramSession.verify in mock mode: it runs to its end without awaiting
VerifyMock(sid, stateId, code, password) ==
  LET info == mockSessions[sid][stateId] IN
  /\ UNCHANGED pending
  /\ IF info.status = "code_sent"
       THEN IF MockCodeWrong(info, code)
         THEN /\ ret' = VerifyError(stateId, "code", code, "wrong code")
              /\ UNCHANGED mockSessions
         ELSE /\ mockSessions' = WithStatus(sid, stateId, "authorized")
              /\ ret' = VerifyOk(stateId, "code", code, "authorized")
     ELSE IF info.status = "password_required"
       THEN IF Falsy(password)
         THEN /\ ret' = VerifyError(stateId, "password", password, "password missing")
              /\ UNCHANGED mockSessions
         ELSE /\ mockSessions' = WithStatus(sid, stateId, "authorized")
              /\ ret' = VerifyOk(stateId, "password", password, "authorized")
     ELSE /\ ret' = VerifyError(stateId, "state", Null, "state does not allow verify")
          /\ UNCHANGED mockSessions

\* verify skips the status test and signs in with the code whatever the
\* login's status is
RequestForAnyStatus(status, password) == "code"

\* TelegramSession.verify with the real client: the request the status of
\* the login calls for ("code": auth.SignIn, "password": auth.CheckPassword),
\* or the error thrown instead
RequestFor(status, password) ==
  IF status = "code_sent" THEN "code"
  ELSE IF status = "password_required"
    THEN (IF Falsy(password) THEN "password missing" ELSE "password")
  ELSE "state does not allow verify"

\* TelegramSession.verify with the real client, up to the await of the
\* server's answer: the request is chosen by the status found now.  The
\* lookup of the login comes before ensureConnected and the test of its
\* status after it; with the real client no login is ever deleted, so the
\* lookup finds the same at both moments and the two are one step.
VerifyReal(sid, stateId, code, password) ==
  LET request == RequestFor(mockSessions[sid][stateId].status, password) IN
  /\ UNCHANGED mockSessions
  /\ IF request \in {"code", "password"}
       THEN /\ Len(pending) < MaxPending
            /\ pending' = Append(pending, [sid |-> sid, stateId |-> stateId,
                  kind |-> request,
                  arg |-> IF request = "code" THEN TrimOrEmpty(code) ELSE password])
            /\ UNCHANGED ret
       ELSE /\ ret' = VerifyError(stateId,
                        IF request = "password missing" THEN "password" ELSE "state",
                        Null, request)
            /\ UNCHANGED pending

\* TelegramService.verify(stateId, code, password, accountId)
\*   -> TelegramSession.verify(stateId, code, password)
Verify(stateId, code, password, accountId) ==
  LET sid == SessionOf(accountId) IN
  /\ GetSessionEffect(accountId)
  /\ UNCHANGED <<accounts, activeAccountId, accountsFile, enabledReal,
                 nextStateId, server>>
  /\ IF sid = 0
       THEN /\ ret' = VerifyError(stateId, "session", Null, "no session")
            /\ UNCHANGED <<mockSessions, pending>>
     ELSE IF ~HasLogin(sid, stateId)
       THEN /\ ret' = VerifyError(stateId, "stateId", Null, "invalid stateId")
            /\ UNCHANGED <<mockSessions, pending>>
     ELSE IF ~enabledReal
       THEN VerifyMock(sid, stateId, code, password)
       ELSE VerifyReal(sid, stateId, code, password)

\* TelegramSession.verify with the real client, from the server's answer on
VerifyReply(i, transportFails) ==
  LET call == pending[i]
      reply == IF transportFails THEN "TRANSPORT"
               ELSE IF call.kind = "code" THEN SignInReply(call.stateId, call.arg)
               ELSE CheckPasswordReply(call.arg) IN
  /\ pending' = RemoveAt(pending, i)
  /\ UNCHANGED <<accountVars, enabledReal, nextStateId, server>>
  /\ IF reply = "ok"
       THEN /\ mockSessions' = WithStatus(call.sid, call.stateId, "authorized")
            /\ ret' = VerifyOk(call.stateId, call.kind, call.arg, "authorized")
     ELSE IF call.kind = "code" /\ NeedsPassword(reply)
       THEN /\ mockSessions' = WithStatus(call.sid, call.stateId, "password_required")
            /\ ret' = VerifyOk(call.stateId, call.kind, call.arg, "needPassword")
     ELSE /\ ret' = VerifyError(call.stateId, call.kind, call.arg, reply)
          /\ UNCHANGED mockSessions

\* TelegramService.logout(stateId, accountId) -> TelegramSession.logout
Logout(stateId, accountId) ==
  LET sid == SessionOf(accountId) IN
  /\ GetSessionEffect(accountId)
  /\ UNCHANGED <<accounts, activeAccountId, accountsFile, enabledReal,
                 nextStateId, server, pending>>
  /\ IF sid = 0
       THEN /\ ret' = [op |-> "logout", ok |-> FALSE, error |-> "no session"]
            /\ UNCHANGED mockSessions
       ELSE /\ ret' = [op |-> "logout", ok |-> TRUE, stateId |-> stateId]
            /\ IF ~enabledReal /\ HasLogin(sid, stateId)
                 THEN mockSessions' = WithoutLogin(sid, stateId)
                 ELSE UNCHANGED mockSessions

StateIds == 1..MaxStateIds

\* ------------------------------------------------------------- tasks
\* this.tasks.findIndex(x => x.id === taskId), 0 when there is none
TaskIndex(taskList, taskId) ==
  IF \E i \in DOMAIN taskList : taskList[i].id = taskId
    THEN CHOOSE i \in DOMAIN taskList : taskList[i].id = taskId
    ELSE 0

\* map.delete(key)
WithoutKey(map, key) == [k \in DOMAIN map \ {key} |-> map[k]]

\* createTask: the task object built from taskData
\* createTask with enabled: taskData.enabled === true
NewTaskOptIn(taskData, id) ==
  [id |-> id, type |-> Field(taskData, "type", "send"),
   channel |-> IF Field(taskData, "type", "send") = "listen"
                 THEN Field(taskData, "channel", "") ELSE Null,
   cron |-> IF Field(taskData, "type", "send") = "listen"
              THEN Null ELSE OrElse(Field(taskData, "cron", Null), DefaultCron),
   runOnce |-> Field(taskData, "runOnce", FALSE) = TRUE,
   enabled |-> Field(taskData, "enabled", FALSE) = TRUE,
   accountId |-> OrElse(Field(taskData, "accountId", Null), Null)]

\* TelegramTaskManager.getTasks(accountId) on the task list
GetTasks(list, accountId) ==
  IF ~Falsy(accountId)
    THEN SelectSeq(list, LAMBDA t : t.accountId = accountId)
    ELSE list

NewTask(taskData, id) ==
  IF Field(taskData, "type", "send") = "listen"
    THEN [id |-> id, type |-> "listen",
          channel |-> Field(taskData, "channel", ""),
          cron |-> Null, runOnce |-> FALSE,
          enabled |-> Field(taskData, "enabled", TRUE) # FALSE,
          accountId |-> OrElse(Field(taskData, "accountId", Null), Null)]
    ELSE [id |-> id, type |-> "send",
          channel |-> Null,
          cron |-> OrElse(Field(taskData, "cron", Null), DefaultCron),
          runOnce |-> Field(taskData, "runOnce", FALSE) = TRUE,
          enabled |-> Field(taskData, "enabled", TRUE) # FALSE,
          accountId |-> OrElse(Field(taskData, "accountId", Null), Null)]

\* the seconds field is put behind a 5-field expression
NormalizeCronAppend(cron) ==
  LET cronExpr == TrimOrEmpty(cron) IN
  IF Len(SplitFields(cronExpr)) = 5 THEN cronExpr \o <<" ", "0">> ELSE cronExpr

\* scheduleTask: cronExpr = String(task.cron || '').trim(); when it splits
\* into 5 fields it becomes '0 ' + cronExpr
NormalizeCron(cron) ==
  LET cronExpr == TrimOrEmpty(cron) IN
  IF Len(SplitFields(cronExpr)) = 5 THEN <<"0", " ">> \o cronExpr ELSE cronExpr

\* cron.validate(cronExpr)
ValidCron(cronExpr) ==
  LET fields == SplitFields(cronExpr) IN
  /\ Len(fields) \in {5, 6}
  /\ \A i \in DOMAIN fields : fields[i] \in CronTokens

\* the part of scheduleTask that reads task.cron, for a cron text: the
\* expression it hands to cron.validate, and the answer
ScheduleCronText(text) ==
  /\ ret = [op |-> "cronText", arg |-> text]
  /\ ret' = [op |-> "cronExpr", arg |-> text,
             cronExpr |-> NormalizeCron(text),
             valid |-> ValidCron(NormalizeCron(text))]
  /\ UNCHANGED <<accountVars, loginVars, orchestratorVars>>

\* this.scheduled.get(taskId).stop(); this.scheduled.delete(taskId)
\* on sch = [jobs, scheduled]
Unschedule(sch, taskId) ==
  IF taskId \in DOMAIN sch.scheduled
    THEN [jobs |-> [sch.jobs EXCEPT ![sch.scheduled[taskId]].stopped = TRUE],
          scheduled |-> WithoutKey(sch.scheduled, taskId)]
    ELSE sch

\* TelegramTaskManager.scheduleTask(task, executeCallback)
ScheduleTask(sch, task) ==
  IF ~task.enabled THEN Unschedule(sch, task.id)
  ELSE IF task.type = "listen" THEN sch
  ELSE IF ~ValidCron(NormalizeCron(task.cron)) THEN sch
  ELSE [jobs |-> Append(sch.jobs, [task |-> task, stopped |-> FALSE]),
        scheduled |-> (task.id :> (Len(sch.jobs) + 1)) @@ sch.scheduled]

RECURSIVE ScheduleEach(_, _)
ScheduleEach(sch, taskList) ==
  IF taskList = <<>> THEN sch
  ELSE ScheduleEach(ScheduleTask(sch, Head(taskList)), Tail(taskList))

\* TelegramTaskManager.rescheduleAll(executeCallback): the jobs of the
\* schedule map are stopped, the map is cleared, every task is scheduled
RescheduleAll(sch, taskList) ==
  ScheduleEach(
    [jobs |-> [j \in DOMAIN sch.jobs |->
                 [sch.jobs[j] EXCEPT !.stopped =
                    @ \/ \E t \in DOMAIN sch.scheduled : sch.scheduled[t] = j]],
     scheduled |-> <<>>],
    taskList)

\* stopListenTask removes the registry entry and leaves the flag alone
StopListenTaskNoFlag(lst, taskId) ==
  [listeners |-> lst.listeners, active |-> WithoutKey(lst.active, taskId)]

\* stopListenTask ends the loop on the spot
StopListenTaskAbort(lst, taskId) ==
  IF taskId \in DOMAIN lst.active
    THEN [listeners |-> [lst.listeners EXCEPT ![lst.active[taskId]].stop = TRUE,
                                              ![lst.active[taskId]].pc = "done"],
          active |-> WithoutKey(lst.active, taskId)]
    ELSE lst

\* TelegramService.stopListenTask(taskId), on lst = [listeners, active]
StopListenTask(lst, taskId) ==
  IF taskId \in DOMAIN lst.active
    THEN [listeners |-> [lst.listeners EXCEPT ![lst.active[taskId]].stop = TRUE],
          active |-> WithoutKey(lst.active, taskId)]
    ELSE lst

\* TelegramService.startListenTask(task), sid the Session getSession gave
\* (0: none); monitorChannel returns at once in mock mode
\* a listener is registered even when getSession returned null
StartListenTaskAnySession(lst, task, sid) ==
  IF task.type # "listen" THEN lst
  ELSE LET old == StopListenTask(lst, task.id) IN
       [listeners |-> Append(old.listeners,
          [taskId |-> task.id, channel |-> task.channel, sid |-> sid,
           stop |-> FALSE, last |-> 0, base |-> 0,
           pc |-> IF enabledReal /\ sid # 0 THEN "startup" ELSE "done"]),
        active |-> (task.id :> (Len(old.listeners) + 1)) @@ old.active]

StartListenTask(lst, task, sid) ==
  IF task.type # "listen" THEN lst
  ELSE LET old == StopListenTask(lst, task.id) IN
       IF sid = 0 THEN old
       ELSE [listeners |-> Append(old.listeners,
                [taskId |-> task.id, channel |-> task.channel, sid |-> sid,
                 stop |-> FALSE, last |-> 0, base |-> 0,
                 pc |-> IF enabledReal THEN "startup" ELSE "done"]),
             active |-> (task.id :> (Len(old.listeners) + 1)) @@ old.active]

\* the account a task runs on: task.accountId || activeAccountId
\* the account is the one registered first, whichever is active
TaskAccountFirst(task) ==
  OrElse(task.accountId, IF Len(accounts) > 0 THEN accounts[1].id ELSE Null)

\* an accountId that is not registered falls back to the active account
TaskAccountOrActive(task) ==
  IF HasAccount(task.accountId) THEN task.accountId ELSE activeAccountId

TaskAccount(task) == OrElse(task.accountId, activeAccountId)

\* TelegramService.createTask(taskData) -> TelegramTaskManager.createTask
CreateTask(taskData) ==
  LET task == NewTask(taskData, nextTaskId + 1)
      starts == task.type = "listen" /\ task.enabled
      lst == StartListenTask([listeners |-> listeners, active |-> activeListeners],
                             task, SessionOf(TaskAccount(task)))
      sch == IF task.type = "send"
               THEN ScheduleTask([jobs |-> jobs, scheduled |-> scheduled], task)
               ELSE [jobs |-> jobs, scheduled |-> scheduled] IN
  /\ nextTaskId < MaxTasks
  /\ nextTaskId' = nextTaskId + 1
  /\ tasks' = Append(tasks, task)
  /\ tasksFile' = tasks'
  /\ listenedMessageIds' = IF task.type = "listen"
                             THEN (task.id :> {}) @@ listenedMessageIds
                             ELSE listenedMessageIds
  /\ jobs' = sch.jobs /\ scheduled' = sch.scheduled
  /\ Len(sch.jobs) <= MaxJobs
  /\ IF starts
       THEN /\ GetSessionEffect(TaskAccount(task))
            /\ listeners' = lst.listeners /\ activeListeners' = lst.active
            /\ Len(lst.listeners) <= MaxListeners
       ELSE UNCHANGED <<sessions, nextSid, handedOut, listeners, activeListeners>>
  /\ ret' = [op |-> "createTask", data |-> taskData, task |-> task]
  /\ UNCHANGED <<accounts, activeAccountId, accountsFile, loginVars, firing,
                 channel, notified, deletedAt, runs>>

\* TelegramService.updateTask(taskId, updates) -> TelegramTaskManager.updateTask
UpdateTask(taskId, updates) ==
  LET idx == TaskIndex(tasks, taskId)
      updated == Merge(tasks[idx], updates)
      stopped == IF tasks[idx].type = "listen"
                   THEN StopListenTask([listeners |-> listeners,
                                        active |-> activeListeners], taskId)
                   ELSE [listeners |-> listeners, active |-> activeListeners]
      starts == updated.type = "listen" /\ updated.enabled
      lst == IF starts
               THEN StartListenTask(stopped, updated, SessionOf(TaskAccount(updated)))
               ELSE stopped
      sch == IF updated.type = "send"
               THEN ScheduleTask(Unschedule([jobs |-> jobs, scheduled |-> scheduled],
                                            taskId), updated)
               ELSE [jobs |-> jobs, scheduled |-> scheduled] IN
  IF idx = 0
    THEN /\ ret' = [op |-> "updateTask", taskId |-> taskId, ok |-> FALSE]
         /\ UNCHANGED <<accountVars, loginVars, orchestratorVars>>
    ELSE /\ tasks' = [tasks EXCEPT ![idx] = updated]
         /\ tasksFile' = tasks'
         /\ jobs' = sch.jobs /\ scheduled' = sch.scheduled
         /\ Len(sch.jobs) <= MaxJobs
         /\ listeners' = lst.listeners /\ activeListeners' = lst.active
         /\ Len(lst.listeners) <= MaxListeners
         /\ IF starts THEN GetSessionEffect(TaskAccount(updated))
                      ELSE UNCHANGED <<sessions, nextSid, handedOut>>
         /\ ret' = [op |-> "updateTask", taskId |-> taskId, ok |-> TRUE]
         /\ UNCHANGED <<accounts, activeAccountId, accountsFile, loginVars,
                        nextTaskId, firing, listenedMessageIds, channel,
                        notified, deletedAt, runs>>

\* TelegramService.deleteTask(taskId) -> TelegramTaskManager.deleteTask
DeleteTask(taskId) ==
  LET idx == TaskIndex(tasks, taskId)
      listen == tasks[idx].type = "listen"
      lst == IF listen
               THEN StopListenTask([listeners |-> listeners,
                                    active |-> activeListeners], taskId)
               ELSE [listeners |-> listeners, active |-> activeListeners]
      sch == Unschedule([jobs |-> jobs, scheduled |-> scheduled], taskId) IN
  IF idx = 0
    THEN /\ ret' = [op |-> "deleteTask", taskId |-> taskId, ok |-> FALSE]
         /\ UNCHANGED <<accountVars, loginVars, orchestratorVars>>
    ELSE /\ tasks' = SubSeq(tasks, 1, idx - 1) \o SubSeq(tasks, idx + 1, Len(tasks))
         /\ tasksFile' = tasks'
         /\ jobs' = sch.jobs /\ scheduled' = sch.scheduled
         /\ listeners' = lst.listeners /\ activeListeners' = lst.active
         /\ listenedMessageIds' = IF listen THEN WithoutKey(listenedMessageIds, taskId)
                                            ELSE listenedMessageIds
         /\ deletedAt' = IF listen
                           THEN (taskId :> channel[tasks[idx].channel]) @@ deletedAt
                           ELSE deletedAt
         /\ ret' = [op |-> "deleteTask", taskId |-> taskId, ok |-> TRUE]
         /\ UNCHANGED <<accountVars, loginVars, nextTaskId, firing, channel,
                        notified, runs>>

\* TelegramService.switchAccount(accountId): rescheduleAll gets the send
\* callback and the listen callback, and takes the first one only
SwitchAccount(accountId) ==
  LET sch == RescheduleAll([jobs |-> jobs, scheduled |-> scheduled], tasks) IN
  /\ ManagerSwitchAccount(accountId)
  /\ IF HasAccount(accountId)
       THEN /\ jobs' = sch.jobs /\ scheduled' = sch.scheduled
            /\ Len(sch.jobs) <= MaxJobs
       ELSE UNCHANGED <<jobs, scheduled>>
  /\ UNCHANGED <<loginVars, taskVars, firing, listenVars, runs>>


\* ------------------------------------------------------------- listeners
\* a message is posted to the channel
PostMessage(c) ==
  /\ channel[c] < MaxMessages
  /\ channel' = [channel EXCEPT ![c] = @ + 1]
  /\ UNCHANGED <<accountVars, loginVars, taskVars, cronVars, listeners,
                 activeListeners, listenedMessageIds, notified, deletedAt,
                 runs, ret>>

\* more messages than one fetch returns are posted to the channel between
\* two steps of the listeners
Burst == FetchLimit + 1
PostMany(c) ==
  /\ channel[c] <= MaxMessages
  /\ channel' = [channel EXCEPT ![c] = @ + Burst]
  /\ UNCHANGED <<accountVars, loginVars, taskVars, cronVars, listeners,
                 activeListeners, listenedMessageIds, notified, deletedAt,
                 runs, ret>>

\* the loop runs one cycle whatever the flag says
TopOfCycleOnce(listener) == IF listener.pc = "delay" THEN "done" ELSE "fetch"

\* monitorChannel: while (!stopCondition || !stopCondition()), the position
\* after the test at the top of a cycle
TopOfCycle(listener) == IF listener.stop THEN "done" ELSE "fetch"

\* monitorChannel up to the loop: ensureConnected, getEntity, and the
\* baseline getMessages(entity, { limit: 1 }), each of which can fail
\*   outcome "noEntity": getEntity fails or finds nothing, the loop never runs
\*   outcome "noBaseline": the baseline fetch throws, lastMessageId stays 0
\* base keeps the newest message id of the channel at that moment
MonitorStartup(l, outcome) ==
  LET listener == listeners[l]
      based == [listener EXCEPT !.last = IF outcome = "ok"
                                           THEN channel[listener.channel] ELSE 0,
                                !.base = channel[listener.channel]] IN
  /\ listener.pc = "startup"
  /\ listeners' = [listeners EXCEPT ![l] =
                     IF outcome = "noEntity" THEN [listener EXCEPT !.pc = "done"]
                     ELSE [based EXCEPT !.pc = TopOfCycle(listener)]]
  /\ UNCHANGED <<accountVars, loginVars, taskVars, cronVars, activeListeners,
                 listenedMessageIds, channel, notified, deletedAt, runs, ret>>

\* iterMessages(entity, { limit: 30 }), newest first, cut at lastMessageId
Fetched(listener) ==
  { m \in 1..channel[listener.channel] :
      m > listener.last /\ m > channel[listener.channel] - FetchLimit }

\* the messages the for await loop collects: newest first, until the limit
\* or an id that is not above lastMessageId
Collected(listener) ==
  LET top == channel[listener.channel] IN
  [i \in 1..Cardinality(Fetched(listener)) |-> top - i + 1]

\* messages.reverse()
Reverse(seq) == [i \in 1..Len(seq) |-> seq[Len(seq) - i + 1]]

\* the batch is handed on without lastMessageId being advanced
RECURSIVE ProcessNoAdvance(_, _, _)
ProcessNoAdvance(batch, last, called) ==
  IF batch = <<>> THEN [last |-> last, called |-> called]
  ELSE ProcessNoAdvance(Tail(batch), last, Append(called, Head(batch)))

\* for (const msg of messages) if (msg.id > lastMessageId) { lastMessageId =
\* msg.id; onMessage(msg) }: the ids the callback is called with, in order
RECURSIVE Process(_, _, _)
Process(batch, last, called) ==
  IF batch = <<>> THEN [last |-> last, called |-> called]
  ELSE IF Head(batch) > last
    THEN Process(Tail(batch), Head(batch), Append(called, Head(batch)))
    ELSE Process(Tail(batch), last, called)

\* markMessageAsProcessed tells every message to be new
IsNewAlways(marked, messageId) == TRUE

\* markMessageAsProcessed: isNew = !msgIdSet.has(messageId)
IsNew(marked, messageId) == messageId \notin marked

\* the Set markMessageAsProcessed works on (a new one when the Map has none)
Marked(taskId) ==
  IF taskId \in DOMAIN listenedMessageIds THEN listenedMessageIds[taskId] ELSE {}

\* an error of a cycle ends the loop
AfterCycleEndsOnError(fails) == IF fails THEN "done" ELSE "delay"

\* the catch of a cycle is inside the loop: after the cycle, failed or not,
\* comes await delay(pollInterval)
AfterCycle(fails) == "delay"

\* monitorChannel: the fetch of a cycle returns; its messages are handed to
\* the callback of startListenTask oldest first, which marks each one and
\* notifies the new ones; then the loop waits
MonitorFetched(l, fails) ==
  LET listener == listeners[l]
      batch == IF fails THEN <<>> ELSE Reverse(Collected(listener))
      done == Process(batch, listener.last, <<>>)
      ids == Range(done.called)
      fresh == { m \in ids : IsNew(Marked(listener.taskId), m) }
      newest == done.last IN
  /\ listener.pc = "fetch"
  /\ listeners' = [listeners EXCEPT ![l] = [listener EXCEPT !.pc = AfterCycle(fails),
                                                            !.last = newest]]
  /\ listenedMessageIds' = IF ids = {} THEN listenedMessageIds
                           ELSE (listener.taskId :> (Marked(listener.taskId) \cup ids))
                                  @@ listenedMessageIds
  /\ notified' = [t \in 1..MaxTasks, m \in 1..MaxMessages |->
                    IF t = listener.taskId /\ m \in fresh
                      THEN notified[t, m] + 1 ELSE notified[t, m]]
  /\ ret' = [op |-> "deliver", taskId |-> listener.taskId, ids |-> ids,
             fresh |-> fresh, called |-> done.called, listener |-> l,
             failed |-> fails,
             retry |-> (ret.op = "deliver" /\ ret.failed /\ ret.listener = l)]
  /\ UNCHANGED <<accountVars, loginVars, taskVars, cronVars, activeListeners,
                 channel, deletedAt, runs>>

\* monitorChannel: await delay(pollInterval) is over, the next cycle begins
\* unless the flag is set
MonitorDelayed(l) ==
  /\ listeners[l].pc = "delay"
  /\ listeners' = [listeners EXCEPT ![l].pc = TopOfCycle(listeners[l])]
  /\ UNCHANGED <<accountVars, loginVars, taskVars, cronVars, activeListeners,
                 listenedMessageIds, channel, notified, deletedAt, runs, ret>>

\* ------------------------------------------------------------- cron
\* node-cron runs the callback of job j: executeCallback(task) resolves the
\* account and its Session and awaits the send
Fire(j) ==
  LET task == jobs[j].task IN
  /\ ~jobs[j].stopped
  /\ Len(firing) < MaxFirings
  /\ GetSessionEffect(TaskAccount(task))
  /\ firing' = Append(firing, [job |-> j, sid |-> SessionOf(TaskAccount(task))])
  /\ UNCHANGED <<accounts, activeAccountId, accountsFile, loginVars, taskVars,
                 jobs, scheduled, listenVars, runs, ret>>

\* the finally block disables the task only after a send that succeeded
DisablesAfterSuccess(task, sent) == task.runOnce /\ sent

\* the finally block disables the task after any firing that threw
DisablesAfterFailure(task, sent) == task.runOnce \/ ~sent

\* the finally block of the cron callback: if (task.runOnce)
DisablesAfterFiring(task, sent) == task.runOnce

\* the notification of the cron callback: the success one at the end of
\* the try block, the failure one in the catch block
FiringNotice(sent) == IF sent THEN "sent" ELSE "failed"

\* the callback of a firing after executeCallback has returned (sent) or
\* thrown: the notification, then the finally block
FireComplete(i, sent) ==
  LET f == firing[i]
      task == jobs[f.job].task
      idx == TaskIndex(tasks, task.id) IN
  /\ sent => (f.sid # 0 /\ enabledReal)
  /\ firing' = RemoveAt(firing, i)
  /\ IF DisablesAfterFiring(task, sent)
       THEN /\ jobs' = [jobs EXCEPT ![f.job].stopped = TRUE]
            /\ scheduled' = WithoutKey(scheduled, task.id)
            /\ IF idx # 0
                 THEN /\ tasks' = [tasks EXCEPT ![idx].enabled = FALSE]
                      /\ tasksFile' = tasks'
                 ELSE UNCHANGED <<tasks, tasksFile>>
       ELSE UNCHANGED <<jobs, scheduled, tasks, tasksFile>>
  /\ ret' = [op |-> "fire", job |-> f.job, taskId |-> task.id,
             runOnce |-> task.runOnce, ok |-> sent,
             notice |-> FiringNotice(sent)]
  /\ UNCHANGED <<accountVars, loginVars, nextTaskId, listenVars, runs>>

\* ------------------------------------------------------------- runTaskNow
\* TelegramSession.getHealth(): connects tells whether ensureConnected
\* succeeds, me whether client.getMe() yields a user
GetHealth(connects, me) ==
  [connected |-> enabledReal /\ connects,
   authorized |-> enabledReal /\ connects /\ me]

\* runTaskNow goes on to send whenever the Session is connected
MaySendIfConnected(health) == health.connected

\* runTaskNow: if (!health.authorized) return { success: false, ... }
MaySend(health) == health.authorized

\* what runTaskNow returns; authorized is what the Session reported and
\* handed whether the message went to client.sendMessage
\* the notify call of a manual run: the success one at the end of the try
\* block, the failure one in the catch block, none on the early returns
RunNotice(message) ==
  IF message = "sent" THEN "sent"
  ELSE IF message \in {"no task", "no session", "not authorized"} THEN "none"
  ELSE "failed"

RunResult(task, ok, message, authorized, handed) ==
  [op |-> "runTaskNow", task |-> task, ok |-> ok, message |-> message,
   authorized |-> authorized, handed |-> handed, notice |-> RunNotice(message)]

\* TelegramService.runTaskNow(taskId, accountId) up to await getHealth()
RunTaskNow(taskId, accountId) ==
  LET idx == TaskIndex(tasks, taskId)
      task == tasks[idx]
      target == OrElse(accountId, TaskAccount(task)) IN
  /\ UNCHANGED <<accounts, activeAccountId, accountsFile, loginVars, taskVars,
                 cronVars, listenVars>>
  /\ IF idx = 0
       THEN /\ ret' = RunResult(Null, FALSE, "no task", FALSE, FALSE)
            /\ UNCHANGED <<sessions, nextSid, handedOut, runs>>
       ELSE /\ GetSessionEffect(target)
            /\ IF SessionOf(target) = 0
                 THEN /\ ret' = RunResult(task, FALSE, "no session", FALSE, FALSE)
                      /\ UNCHANGED runs
                 ELSE /\ Len(runs) < MaxRuns
                      /\ runs' = Append(runs, [op |-> "runTaskNow", task |-> task,
                                                sid |-> SessionOf(target)])
                      /\ UNCHANGED ret

\* runTaskNow from the health report on: getMe, sendMessage (which throws
\* in mock mode before the client is used), waitForFirstReply
RunTaskNowHealth(i, connects, me, sendFails, replyFails) ==
  LET run == runs[i]
      health == GetHealth(connects, me) IN
  /\ run.op = "runTaskNow"
  /\ runs' = RemoveAt(runs, i)
  /\ ret' = IF ~MaySend(health)
              THEN RunResult(run.task, FALSE, "not authorized", health.authorized, FALSE)
            ELSE IF ~enabledReal
              THEN RunResult(run.task, FALSE, "mock mode", health.authorized, FALSE)
            ELSE IF sendFails
              THEN RunResult(run.task, FALSE, "send failed", health.authorized, TRUE)
            ELSE IF replyFails
              THEN RunResult(run.task, FALSE, "reply failed", health.authorized, TRUE)
            ELSE RunResult(run.task, TRUE, "sent", health.authorized, TRUE)
  /\ UNCHANGED <<accountVars, loginVars, taskVars, cronVars, listenVars>>

\* what sendNow returned or threw, and the notify call it made: sendNow
\* has no try block, so only its last statement notifies
SendNowResult(to, ok, message, handed) ==
  [op |-> "sendNow", to |-> to, ok |-> ok, message |-> message,
   handed |-> handed, notice |-> IF ok THEN "sent" ELSE "none"]

\* TelegramService.sendNow(to, message, accountId) up to await getMe()
SendNow(to, accountId) ==
  /\ GetSessionEffect(accountId)
  /\ IF SessionOf(accountId) = 0
       THEN /\ ret' = SendNowResult(to, FALSE, "no session", FALSE)
            /\ UNCHANGED runs
       ELSE /\ Len(runs) < MaxRuns
            /\ runs' = Append(runs, [op |-> "sendNow", task |-> to,
                                      sid |-> SessionOf(accountId)])
            /\ UNCHANGED ret
  /\ UNCHANGED <<accounts, activeAccountId, accountsFile, loginVars, taskVars,
                 cronVars, listenVars>>

\* sendNow after getMe: sendMessage (which throws in mock mode before the
\* client is used), waitForFirstReply, the success notification
SendNowSettled(i, sendFails, replyFails) ==
  LET run == runs[i] IN
  /\ run.op = "sendNow"
  /\ runs' = RemoveAt(runs, i)
  /\ ret' = IF ~enabledReal
              THEN SendNowResult(run.task, FALSE, "mock mode", FALSE)
            ELSE IF sendFails
              THEN SendNowResult(run.task, FALSE, "send failed", TRUE)
            ELSE IF replyFails
              THEN SendNowResult(run.task, FALSE, "reply failed", TRUE)
            ELSE SendNowResult(run.task, TRUE, "sent", TRUE)
  /\ UNCHANGED <<accountVars, loginVars, taskVars, cronVars, listenVars>>

\* ------------------------------------------------ getAllAccountsHealth
\* how the health query of an account ends
HealthOutcomes == { "answer", "timeout", "throw" }

\* the timed-out query's marker is pushed as if it were a health record
HealthRecordNoTimeout(outcome, connects, me) ==
  IF outcome = "throw"
    THEN [mode |-> "error", connected |-> FALSE, authorized |-> FALSE]
    ELSE [mode |-> "marker", connected |-> FALSE, authorized |-> FALSE]

\* the health pushed for an account: what getHealth answered, timeoutHealth
\* when the timer won the race, the error record of the catch block, the
\* record of an account without a Session
HealthRecord(outcome, connects, me) ==
  CASE outcome = "answer" ->
         [mode |-> IF enabledReal THEN "real" ELSE "mock",
          connected |-> GetHealth(connects, me).connected,
          authorized |-> GetHealth(connects, me).authorized]
    [] outcome = "timeout" ->
         [mode |-> "timeout", connected |-> FALSE, authorized |-> FALSE]
    [] outcome = "throw" ->
         [mode |-> "error", connected |-> FALSE, authorized |-> FALSE]
    [] OTHER ->
         [mode |-> "unknown", connected |-> FALSE, authorized |-> FALSE]

\* the first account from position k on that has a Session (the loop
\* awaits its query), Len(accounts) + 1 when there is none
RECURSIVE NextAwait(_)
NextAwait(k) ==
  IF k > Len(accounts) \/ SessionOf(accounts[k].id) # 0 THEN k
  ELSE NextAwait(k + 1)

\* the records of the accounts k .. j-1, which have no Session
UnknownRecords(k, j) ==
  [i \in 1..(j - k) |->
     [id |-> accounts[k + i - 1].id, outcome |-> "nosession",
      health |-> HealthRecord("nosession", FALSE, FALSE)]]

\* the queries of all the accounts from k on are started at once and the
\* loop awaits the last of them
HealthLoopAtOnce(result, k, n0) ==
  IF k > Len(accounts)
    THEN /\ healthCall' = [pc |-> "done", idx |-> 0, n0 |-> n0, result |-> result]
         /\ ret' = [op |-> "getAllAccountsHealth", result |-> result]
         /\ UNCHANGED <<sessions, nextSid, handedOut>>
    ELSE /\ healthCall' = [pc |-> "await", idx |-> Len(accounts), n0 |-> n0,
                           result |-> result]
         /\ GetSessionEffect(accounts[Len(accounts)].id)
         /\ UNCHANGED ret

\* the loop from account k on, up to its next await or to the return
HealthLoop(result, k, n0) ==
  LET j == NextAwait(k)
      res == result \o UnknownRecords(k, j) IN
  IF j > Len(accounts)
    THEN /\ healthCall' = [pc |-> "done", idx |-> 0, n0 |-> n0, result |-> res]
         /\ ret' = [op |-> "getAllAccountsHealth", result |-> res]
         /\ UNCHANGED <<sessions, nextSid, handedOut>>
    ELSE /\ healthCall' = [pc |-> "await", idx |-> j, n0 |-> n0, result |-> res]
         /\ GetSessionEffect(accounts[j].id)
         /\ UNCHANGED ret

\* TelegramAccountManager.getAllAccountsHealth() up to its first await
GetAllAccountsHealth ==
  /\ healthCall.pc # "await"
  /\ HealthLoop(<<>>, 1, Len(accounts))
  /\ UNCHANGED <<accounts, activeAccountId, accountsFile>>

\* the race of the awaited query settles: getHealth answered or threw, or
\* the timer of timeoutMs fired first; the record is pushed and the loop
\* goes on to the next account
HealthSettled(outcome, connects, me) ==
  /\ healthCall.pc = "await"
  /\ HealthLoop(Append(healthCall.result,
                       [id |-> accounts[healthCall.idx].id, outcome |-> outcome,
                        health |-> HealthRecord(outcome, connects, me)]),
                healthCall.idx + 1, healthCall.n0)
  /\ UNCHANGED <<accounts, activeAccountId, accountsFile>>

\* ----------------------------------------------------------- sendMessage
\* ensureConnected: const maxRetries = 3
MaxRetries == 3

\* whom the messages followed are for
Recipients == { "@bot", "me" }

\* the constructor of TelegramSession: the client exists in real mode
\* unless its construction threw
NewSession(clientOk) ==
  /\ sendCall.pc \in {"idle", "done"}
  /\ transport' = [client |-> enabledReal /\ clientOk, connected |-> FALSE,
                   saved |-> FALSE, authorized |-> FALSE]
  /\ sendCall' = [pc |-> "idle", attempt |-> 0]
  /\ UNCHANGED ret

\* the login of the Session is completed (a verify that succeeded, which
\* had connected first): the sign-in is followed by saveSession
CompleteLogin ==
  /\ transport.client /\ ~transport.authorized
  /\ sendCall.pc \in {"idle", "done"}
  /\ transport' = [transport EXCEPT !.connected = TRUE, !.authorized = TRUE,
                                    !.saved = TRUE]
  /\ UNCHANGED <<sendCall, ret>>

\* what sendMessage returned or threw; ensured is what ensureConnected
\* returned, handed whether client.sendMessage was called
SendResult(to, ok, error, ensured, handed) ==
  [op |-> "sendMessage", to |-> to, ok |-> ok, error |-> error, ensured |-> ensured,
   authorized |-> transport.authorized, handed |-> handed]

\* TelegramSession.sendMessage(to, message) up to its first await that
\* can suspend: the mock-mode throw, or ensureConnected, which returns at
\* once when the connected flag is set (the message then goes to
\* client.sendMessage) and else awaits client.connect()
SendMessage(to) ==
  /\ sendCall.pc \in {"idle", "done"}
  /\ IF ~enabledReal \/ ~transport.client
       THEN /\ ret' = SendResult(to, FALSE, "mock mode", FALSE, FALSE)
            /\ sendCall' = [pc |-> "done", attempt |-> 0]
       ELSE IF transport.connected
         THEN /\ sendCall' = [pc |-> "transport", attempt |-> 0, to |-> to,
                              ensured |-> TRUE]
              /\ UNCHANGED ret
         ELSE /\ sendCall' = [pc |-> "connect", attempt |-> 1, to |-> to]
              /\ UNCHANGED ret
  /\ UNCHANGED transport

\* the wait before the next attempt does not grow
DelayMsFixed(attempt) == 2000

\* ensureConnected: const delay = 2000 * attempt
DelayMs(attempt) == 2000 * attempt

\* ensureConnected writes the session file after a connect that succeeded
ConnectSettledSaving(connects) ==
  /\ sendCall.pc = "connect"
  /\ IF connects
       THEN /\ transport' = [transport EXCEPT !.connected = TRUE, !.saved = TRUE]
            /\ sendCall' = [pc |-> "transport", attempt |-> sendCall.attempt,
                            to |-> sendCall.to, ensured |-> TRUE]
       ELSE IF sendCall.attempt < MaxRetries
         THEN /\ sendCall' = [pc |-> "delay", attempt |-> sendCall.attempt,
                              to |-> sendCall.to,
                              wait |-> DelayMs(sendCall.attempt)]
              /\ UNCHANGED transport
         ELSE /\ sendCall' = [pc |-> "transport", attempt |-> sendCall.attempt,
                              to |-> sendCall.to, ensured |-> FALSE]
              /\ UNCHANGED transport
  /\ UNCHANGED ret

\* ensureConnected: client.connect() of the current attempt has returned
\* (connects) or thrown; after the last attempt ensureConnected returns
\* false, and sendMessage, which does not read what it returned, calls
\* client.sendMessage
ConnectSettled(connects) ==
  /\ sendCall.pc = "connect"
  /\ IF connects
       THEN /\ transport' = [transport EXCEPT !.connected = TRUE]
            /\ sendCall' = [pc |-> "transport", attempt |-> sendCall.attempt,
                            to |-> sendCall.to, ensured |-> TRUE]
       ELSE IF sendCall.attempt < MaxRetries
         THEN /\ sendCall' = [pc |-> "delay", attempt |-> sendCall.attempt,
                              to |-> sendCall.to,
                              wait |-> DelayMs(sendCall.attempt)]
              /\ UNCHANGED transport
         ELSE /\ sendCall' = [pc |-> "transport", attempt |-> sendCall.attempt,
                              to |-> sendCall.to, ensured |-> FALSE]
              /\ UNCHANGED transport
  /\ UNCHANGED ret

\* ensureConnected: the delay of 2000 * attempt ms is over, next attempt
ConnectDelayed ==
  /\ sendCall.pc = "delay"
  /\ sendCall' = [pc |-> "connect", attempt |-> sendCall.attempt + 1,
                  to |-> sendCall.to]
  /\ UNCHANGED <<transport, ret>>

\* client.sendMessage has returned (sent) or thrown; the server takes a
\* message only from a Session whose login is completed
TransportSettled(sent) ==
  /\ sendCall.pc = "transport"
  /\ sent => transport.authorized
  /\ ret' = SendResult(sendCall.to, sent, IF sent THEN "none" ELSE "transport",
                       sendCall.ensured, TRUE)
  /\ sendCall' = [pc |-> "done", attempt |-> sendCall.attempt]
  /\ UNCHANGED transport

\* TelegramSession.getHealth() on the same Session, up to the first await of
\* its ensureConnected; ensureConnected looks at the connected flag only
GetHealthCall ==
  /\ probe.pc \in {"idle", "done"}
  /\ IF ~enabledReal \/ ~transport.client \/ transport.connected
       THEN /\ probe' = [pc |-> "done", attempt |-> 0]
            /\ ret' = [op |-> "getHealth",
                       connected |-> enabledReal /\ transport.client]
       ELSE /\ probe' = [pc |-> "connect", attempt |-> 1]
            /\ UNCHANGED ret
  /\ UNCHANGED <<transport, sendCall>>

\* ensureConnected of getHealth: its client.connect() has returned or thrown
ProbeConnectSettled(connects) ==
  /\ probe.pc = "connect"
  /\ IF connects
       THEN /\ transport' = [transport EXCEPT !.connected = TRUE]
            /\ probe' = [pc |-> "done", attempt |-> probe.attempt]
            /\ ret' = [op |-> "getHealth", connected |-> TRUE]
       ELSE IF probe.attempt < MaxRetries
         THEN /\ probe' = [pc |-> "delay", attempt |-> probe.attempt]
              /\ UNCHANGED <<transport, ret>>
         ELSE /\ probe' = [pc |-> "done", attempt |-> probe.attempt]
              /\ ret' = [op |-> "getHealth", connected |-> FALSE]
              /\ UNCHANGED transport
  /\ UNCHANGED sendCall

\* ensureConnected of getHealth: the wait is over, next attempt
ProbeDelayed ==
  /\ probe.pc = "delay"
  /\ probe' = [pc |-> "connect", attempt |-> probe.attempt + 1]
  /\ UNCHANGED <<transport, sendCall, ret>>

\* ------------------------------------------------------------- calls
DoGetSession ==
  /\ \E a \in AccountIds \cup {Null} : GetSession(a)
  /\ UNCHANGED <<loginVars, orchestratorVars, callVars>>
DoAddAccount ==
  /\ \E p \in Phones : AddAccount(p)
  /\ UNCHANGED <<loginVars, orchestratorVars, callVars>>
DoRemoveAccount ==
  /\ \E a \in AccountIds : RemoveAccount(a)
  /\ UNCHANGED <<loginVars, orchestratorVars, callVars>>
DoManagerSwitchAccount ==
  /\ \E a \in AccountIds : ManagerSwitchAccount(a)
  /\ UNCHANGED <<loginVars, orchestratorVars, callVars>>
\* the account whose login is followed
DoAddLoginAccount ==
  /\ \E p \in LoginPhones : AddAccount(p)
  /\ UNCHANGED <<loginVars, orchestratorVars, callVars>>
DoSendCode ==
  /\ \E p \in LoginPhones, a \in LoginAccountArgs : SendCode(p, a)
  /\ UNCHANGED <<orchestratorVars, callVars>>
DoVerify ==
  /\ \E k \in StateIds, in \in VerifyInputs, a \in LoginAccountArgs :
       Verify(k, in[1], in[2], a)
  /\ UNCHANGED <<orchestratorVars, callVars>>
DoVerifyReply ==
  /\ \E i \in DOMAIN pending, f \in BOOLEAN : VerifyReply(i, f)
  /\ UNCHANGED <<orchestratorVars, callVars>>
DoLogout ==
  /\ \E k \in StateIds, a \in LoginAccountArgs : Logout(k, a)
  /\ UNCHANGED <<orchestratorVars, callVars>>

\* the accounts tasks run on
DoAddTaskAccount ==
  /\ Len(accounts) < Len(TaskPhones)
  /\ AddAccount(TaskPhones[Len(accounts) + 1])
  /\ UNCHANGED <<loginVars, orchestratorVars, callVars>>
DoCreateSendTask ==
  /\ \E data \in SendTaskInputs : CreateTask(data)
  /\ UNCHANGED callVars
DoCreateListenTask ==
  /\ \E data \in ListenTaskInputs : CreateTask(data)
  /\ UNCHANGED callVars
DoUpdateTask ==
  /\ \E t \in 1..MaxTasks, u \in UpdateInputs : UpdateTask(t, u)
  /\ UNCHANGED callVars
DoDeleteTask ==
  /\ \E t \in 1..MaxTasks : DeleteTask(t)
  /\ UNCHANGED callVars
\* PUT /api/tasks/:id with a body that changes the type of the task
DoRetypeTask ==
  /\ \E t \in 1..MaxTasks : UpdateTask(t, RetypeInput)
  /\ UNCHANGED callVars
\* PUT /api/tasks/:id with a body that changes the channel of the task
DoRechannelTask ==
  /\ \E t \in 1..MaxTasks, u \in RechannelInputs : UpdateTask(t, u)
  /\ UNCHANGED callVars
DoSwitchAccount ==
  /\ \E p \in Range(TaskPhones) : SwitchAccount(makeAccountId(p))
  /\ UNCHANGED callVars
DoPostMessage ==
  /\ \E c \in Channels : PostMessage(c)
  /\ UNCHANGED callVars
DoPostOther ==
  /\ \E c \in OtherChannels : PostMessage(c)
  /\ UNCHANGED callVars
DoPostMany ==
  /\ \E c \in Channels : PostMany(c)
  /\ UNCHANGED callVars
DoMonitorStartup ==
  /\ \E l \in DOMAIN listeners, outcome \in {"ok", "noBaseline", "noEntity"} :
       MonitorStartup(l, outcome)
  /\ UNCHANGED callVars
DoMonitorFetched ==
  /\ \E l \in DOMAIN listeners, fails \in BOOLEAN : MonitorFetched(l, fails)
  /\ UNCHANGED callVars
DoMonitorDelayed ==
  /\ \E l \in DOMAIN listeners : MonitorDelayed(l)
  /\ UNCHANGED callVars
DoFire ==
  /\ \E j \in DOMAIN jobs : Fire(j)
  /\ UNCHANGED callVars
DoFireComplete ==
  /\ \E i \in DOMAIN firing, sent \in BOOLEAN : FireComplete(i, sent)
  /\ UNCHANGED callVars
DoRunTaskNow ==
  /\ \E t \in 1..MaxTasks, a \in {Null} \cup {makeAccountId(p) : p \in Range(TaskPhones)} :
       RunTaskNow(t, a)
  /\ UNCHANGED callVars
DoRunTaskNowHealth ==
  /\ \E i \in DOMAIN runs, connects \in BOOLEAN, me \in BOOLEAN,
        sendFails \in BOOLEAN, replyFails \in BOOLEAN :
       RunTaskNowHealth(i, connects, me, sendFails, replyFails)
  /\ UNCHANGED callVars
DoSendNow ==
  /\ \E to \in Recipients,
        a \in {Null} \cup {makeAccountId(p) : p \in Range(TaskPhones)} :
       SendNow(to, a)
  /\ UNCHANGED callVars
DoSendNowSettled ==
  /\ \E i \in DOMAIN runs, sendFails \in BOOLEAN, replyFails \in BOOLEAN :
       SendNowSettled(i, sendFails, replyFails)
  /\ UNCHANGED callVars

\* The account registry on its own
NextAccounts ==
  \/ DoGetSession
  \/ DoAddAccount
  \/ DoRemoveAccount
  \/ DoManagerSwitchAccount

SpecAccounts == Init /\ [][NextAccounts]_vars

\* Accounts and the login of their Sessions
NextLogin ==
  \/ DoAddLoginAccount
  \/ DoSendCode
  \/ DoVerify
  \/ DoVerifyReply
  \/ DoLogout

SpecLogin == Init /\ [][NextLogin]_vars

\* Listen tasks, their listeners and the channel
NextListen ==
  \/ DoAddTaskAccount
  \/ DoCreateListenTask
  \/ DoUpdateTask
  \/ DoDeleteTask
  \/ DoSwitchAccount
  \/ DoPostMessage
  \/ DoMonitorStartup
  \/ DoMonitorFetched
  \/ DoMonitorDelayed

SpecListen == Init /\ [][NextListen]_vars

\* what monitorChannel of listener l awaits (the startup calls, the fetch of
\* a cycle, the timer between cycles) settles
MonitorStepOf(l) ==
  /\ l \in DOMAIN listeners
  /\ \/ \E outcome \in {"ok", "noBaseline", "noEntity"} : MonitorStartup(l, outcome)
     \/ \E fails \in BOOLEAN : MonitorFetched(l, fails)
     \/ MonitorDelayed(l)
  /\ UNCHANGED callVars

\* the listeners of a task that is created, stopped and restarted, when
\* every call a loop awaits returns or throws
NextPoll ==
  \/ DoAddTaskAccount
  \/ DoCreateListenTask
  \/ DoUpdateTask
  \/ DoPostMessage
  \/ DoMonitorStartup
  \/ DoMonitorFetched
  \/ DoMonitorDelayed

SpecPoll ==
  /\ Init /\ [][NextPoll]_vars
  /\ \A l \in 1..MaxListeners : WF_vars(MonitorStepOf(l))

\* one listener and a channel that receives more messages between two cycles
\* than a fetch returns
NextBurst ==
  \/ DoAddTaskAccount
  \/ DoCreateListenTask
  \/ DoPostMessage
  \/ DoPostMany
  \/ DoMonitorStartup
  \/ DoMonitorFetched
  \/ DoMonitorDelayed

SpecBurst == Init /\ [][NextBurst]_vars

\* a listen task that is moved to another channel
NextRechannel ==
  \/ DoAddTaskAccount
  \/ DoCreateListenTask
  \/ DoRechannelTask
  \/ DoPostMessage
  \/ DoPostOther
  \/ DoMonitorStartup
  \/ DoMonitorFetched
  \/ DoMonitorDelayed

SpecRechannel == Init /\ [][NextRechannel]_vars

\* listeners and the removal of accounts
NextRemove ==
  \/ DoAddTaskAccount
  \/ DoRemoveAccount
  \/ DoCreateListenTask
  \/ DoPostMessage
  \/ DoMonitorStartup
  \/ DoMonitorFetched
  \/ DoMonitorDelayed

SpecRemove == Init /\ [][NextRemove]_vars

\* Send tasks and their cron jobs
NextCron ==
  \/ DoAddTaskAccount
  \/ DoCreateSendTask
  \/ DoUpdateTask
  \/ DoDeleteTask
  \/ DoSwitchAccount
  \/ DoFire
  \/ DoFireComplete

SpecCron == Init /\ [][NextCron]_vars

\* Manual runs of send tasks
NextRunNow ==
  \/ DoAddTaskAccount
  \/ DoCreateSendTask
  \/ DoRunTaskNow
  \/ DoRunTaskNowHealth
  \/ DoSendNow
  \/ DoSendNowSettled

SpecRunNow == Init /\ [][NextRunNow]_vars

\* Manual runs of send tasks and of listen tasks
NextRunAny ==
  \/ DoAddTaskAccount
  \/ DoCreateSendTask
  \/ DoCreateListenTask
  \/ DoRunTaskNow
  \/ DoRunTaskNowHealth

SpecRunAny == Init /\ [][NextRunAny]_vars

\* Send and listen tasks and the accounts they are bound to
NextTasks ==
  \/ DoAddTaskAccount
  \/ DoCreateSendTask
  \/ DoCreateListenTask
  \/ DoUpdateTask
  \/ DoDeleteTask
  \/ DoSwitchAccount
  \/ DoFire
  \/ DoFireComplete

SpecTasks == Init /\ [][NextTasks]_vars

\* the task operations with updates that change a task's type
NextRetype ==
  \/ DoAddTaskAccount
  \/ DoCreateSendTask
  \/ DoUpdateTask
  \/ DoRetypeTask
  \/ DoDeleteTask
  \/ DoFire
  \/ DoFireComplete

SpecRetype == Init /\ [][NextRetype]_vars

DoGetAllAccountsHealth ==
  /\ GetAllAccountsHealth
  /\ UNCHANGED <<loginVars, orchestratorVars, transport, sendCall, probe, loadCall>>
DoHealthSettled ==
  /\ \E outcome \in HealthOutcomes, connects \in BOOLEAN, me \in BOOLEAN :
       HealthSettled(outcome, connects, me)
  /\ UNCHANGED <<loginVars, orchestratorVars, transport, sendCall, probe, loadCall>>

\* The aggregate health of the accounts
NextHealth ==
  \/ DoAddTaskAccount
  \/ DoGetAllAccountsHealth
  \/ DoHealthSettled

\* every race settles: its timer fires after timeoutMs at the latest
SpecHealth == Init /\ [][NextHealth]_vars /\ WF_vars(DoHealthSettled)

DoNewSession ==
  /\ \E clientOk \in BOOLEAN : NewSession(clientOk)
  /\ UNCHANGED <<accountVars, loginVars, orchestratorVars, healthCall, probe, loadCall>>
DoCompleteLogin ==
  /\ CompleteLogin
  /\ UNCHANGED <<accountVars, loginVars, orchestratorVars, healthCall, probe, loadCall>>
DoSendMessage ==
  /\ \E to \in Recipients : SendMessage(to)
  /\ UNCHANGED <<accountVars, loginVars, orchestratorVars, healthCall, probe, loadCall>>
DoConnectSettled ==
  /\ \E connects \in BOOLEAN : ConnectSettled(connects)
  /\ UNCHANGED <<accountVars, loginVars, orchestratorVars, healthCall, probe, loadCall>>
DoConnectDelayed ==
  /\ ConnectDelayed
  /\ UNCHANGED <<accountVars, loginVars, orchestratorVars, healthCall, probe, loadCall>>
DoTransportSettled ==
  /\ \E sent \in BOOLEAN : TransportSettled(sent)
  /\ UNCHANGED <<accountVars, loginVars, orchestratorVars, healthCall, probe, loadCall>>

\* sendMessage on one Session
NextSend ==
  \/ DoNewSession
  \/ DoCompleteLogin
  \/ DoSendMessage
  \/ DoConnectSettled
  \/ DoConnectDelayed
  \/ DoTransportSettled

SpecSend == Init /\ [][NextSend]_vars

\* sendMessage and getHealth on one Session at the same time
DoGetHealthCall ==
  /\ GetHealthCall
  /\ UNCHANGED <<accountVars, loginVars, orchestratorVars, healthCall, loadCall>>
DoProbeConnectSettled ==
  /\ \E connects \in BOOLEAN : ProbeConnectSettled(connects)
  /\ UNCHANGED <<accountVars, loginVars, orchestratorVars, healthCall, loadCall>>
DoProbeDelayed ==
  /\ ProbeDelayed
  /\ UNCHANGED <<accountVars, loginVars, orchestratorVars, healthCall, loadCall>>

NextConcurrent ==
  \/ NextSend
  \/ DoGetHealthCall
  \/ DoProbeConnectSettled
  \/ DoProbeDelayed

SpecConcurrent == Init /\ [][NextConcurrent]_vars

\* The loading of the accounts file when the manager is constructed
DoLoadAttempt ==
  /\ \E readFails \in BOOLEAN : LoadAttempt(readFails)
  /\ UNCHANGED <<loginVars, orchestratorVars, healthCall, transport, sendCall, probe>>
DoLoadSlept ==
  /\ LoadSlept
  /\ UNCHANGED <<loginVars, orchestratorVars, healthCall, transport, sendCall, probe>>
DoReloadTimer ==
  /\ ReloadTimer
  /\ UNCHANGED <<loginVars, orchestratorVars, healthCall, transport, sendCall, probe>>
DoDiskReady ==
  /\ DiskReady
  /\ UNCHANGED <<loginVars, orchestratorVars, healthCall, transport, sendCall, probe>>

NextLoad ==
  \/ DoLoadAttempt
  \/ DoLoadSlept
  \/ DoReloadTimer
  \/ DoDiskReady

\* the constructor is about to call loadAccounts
InitLoad ==
  /\ InitOther
  /\ accountsFile \in {Absent, Corrupt, <<>>, StoredAccounts}
  /\ loadCall = [pc |-> "try", attempt |-> 1, reloads |-> 0, armed |-> FALSE,
                 wait |-> 0]
  /\ ret = [op |-> "init"]

\* loadAccounts is synchronous code and the timers expire
SpecLoad ==
  /\ InitLoad /\ [][NextLoad]_vars
  /\ WF_vars(DoLoadAttempt) /\ WF_vars(DoLoadSlept) /\ WF_vars(DoReloadTimer)

\* sendMessage when every client.connect() returns or throws and every
\* timer of ensureConnected expires
SpecConnect ==
  /\ Init /\ [][NextSend]_vars
  /\ WF_vars(DoConnectSettled)
  /\ WF_vars(DoConnectDelayed)

\* The cron text of scheduleTask on its own
DoScheduleCronText ==
  /\ ret.op = "cronText" /\ ScheduleCronText(ret.arg)
  /\ UNCHANGED callVars

NextCronText == DoScheduleCronText

\* a task with one of the cron texts is about to be scheduled
InitCronText ==
  InitState /\ ret \in { [op |-> "cronText", arg |-> text] : text \in CronTexts }

SpecCronText == InitCronText /\ [][NextCronText]_vars

\* ------------------------------------------------------------- claims

ActiveIndexes == { i \in DOMAIN accounts : accounts[i].active }

\* C1: whenever the registry is non-empty exactly one account has
\* active = true and activeAccountId is the id of that account;
\* activeAccountId is null exactly when no account is registered.
C1_ExactlyOneActive ==
  /\ Len(accounts) > 0 =>
       /\ Cardinality(ActiveIndexes) = 1
       /\ \A i \in ActiveIndexes : accounts[i].id = activeAccountId
  /\ (activeAccountId = Null) <=> (Len(accounts) = 0)

\* C1 witness: a successful switch to the second of two accounts
C1_Witness ==
  /\ ret.op = "switchAccount" /\ ret.ok
  /\ Len(accounts) = 2
  /\ accounts[2].active

\* C5: an addAccount whose phone derives an id that is already registered
\* fails with "already exists" and changes nothing of the registry; an
\* addAccount with an unregistered id succeeds and registers it.
C5_DuplicateAddRejected ==
  [][ ret'.op = "addAccount" =>
        IF HasAccount(makeAccountId(ret'.arg))
          THEN /\ ~ret'.ok
               /\ ret'.error = "already exists"
               /\ UNCHANGED accountVars
          ELSE /\ ret'.ok
               /\ \E i \in DOMAIN accounts' :
                    accounts'[i].id = makeAccountId(ret'.arg) ]_vars

\* C5 witness: "+1" was refused because "1" is registered
C5_Witness ==
  /\ ret.op = "addAccount" /\ ~ret.ok
  /\ ret.arg = <<"+", "1">>
  /\ \E i \in DOMAIN accounts : accounts[i].phone = <<"1">>

\* C6: getSession is memoized (between two removals of an account every
\* call for it returned the same Session instance), and getSession(null)
\* returns the Session of the active account whenever there is one.
C6_MemoizedAndNullIsActive ==
  /\ \A a \in AccountIds : Cardinality(handedOut[a]) <= 1
  /\ (ret.op = "getSession" /\ ret.arg = Null /\ ActiveIndexes # {}) =>
       \E e \in Range(sessions) :
         /\ e.sid = ret.session
         /\ \E i \in ActiveIndexes : accounts[i].id = e.id

\* the status of login stateId in the map ms of Session instance sid
StatusOf(ms, sid, stateId) ==
  IF stateId \in DOMAIN ms[sid] THEN ms[sid][stateId].status ELSE "none"

LoginEdges ==
  { <<"none", "code_sent">>,
    <<"code_sent", "authorized">>,
    <<"code_sent", "password_required">>,
    <<"password_required", "authorized">> }

\* a login that is not authorized yet may be dropped
CancelEdges == { <<"code_sent", "none">>, <<"password_required", "none">> }

\* C8 (as claimed): the status of a pending login changes only along
\* none -(sendCode)-> code_sent -> authorized,
\* code_sent -> password_required -> authorized; password_required is
\* entered only from code_sent, authorized is never left, and a verify that
\* returns success did not find the login authorized.
C8_LoginTransitions ==
  [][ /\ \A sid \in 1..MaxSessions, k \in StateIds :
           LET before == StatusOf(mockSessions, sid, k)
               after == StatusOf(mockSessions', sid, k) IN
           before # after => <<before, after>> \in LoginEdges \cup CancelEdges
      /\ (ret' # ret /\ ret'.op = "verify" /\ ret'.ok) =>
           \A sid \in 1..MaxSessions :
             StatusOf(mockSessions, sid, ret'.stateId) # "authorized" ]_vars

\* the step delivers the server's answer to a verify of login (sid, k) that
\* was issued with the code
LateCodeReply(sid, k) ==
  \E i \in DOMAIN pending :
    /\ pending[i].sid = sid /\ pending[i].stateId = k /\ pending[i].kind = "code"
    /\ pending' = RemoveAt(pending, i)

\* C8 (amended): a login is created as code_sent by sendCode; verify issues
\* a sign-in only for a login it finds code_sent and a password check only
\* for one it finds password_required (a verify that finds it authorized is
\* rejected), and its answer moves the login code_sent -> authorized,
\* code_sent -> password_required or password_required -> authorized.  The
\* only other changes: logout in mock mode deletes the login, whatever its
\* status, and the answer to a sign-in is applied to the status the login
\* has when the answer arrives, which an overlapping verify of the same
\* stateId may already have advanced.
C8_LoginTransitionsAmended ==
  [][ /\ \A sid \in 1..MaxSessions, k \in StateIds :
           LET before == StatusOf(mockSessions, sid, k)
               after == StatusOf(mockSessions', sid, k) IN
           before # after =>
             \/ <<before, after>> \in LoginEdges
             \/ after = "none" /\ ~enabledReal /\ ret'.op = "logout"
             \/ /\ after \in {"authorized", "password_required"}
                /\ before \in {"authorized", "password_required"}
                /\ LateCodeReply(sid, k)
      /\ Len(pending') = Len(pending) + 1 =>
           LET call == pending'[Len(pending')]
               found == StatusOf(mockSessions, call.sid, call.stateId) IN
           IF call.kind = "code" THEN found = "code_sent"
                                 ELSE found = "password_required"
      /\ (ret' # ret /\ ret'.op = "verify" /\ ret'.ok /\ ~enabledReal) =>
           \A sid \in 1..MaxSessions :
             StatusOf(mockSessions, sid, ret'.stateId) # "authorized" ]_vars

\* C8 witness: a login of an account with a two-step password that went
\* through password_required and is authorized
C8_Witness ==
  /\ ret.op = "verify" /\ ret.ok /\ ret.kind = "password"
  /\ \E sid \in 1..MaxSessions :
       StatusOf(mockSessions, sid, ret.stateId) = "authorized"

\* the credential a successful verify was judged on is the right one: the
\* code of the login (mock mode: after trimming), the server's code, a
\* two-step password that is given and that the server accepts
GoodCredential(sid, r) ==
  /\ HasLogin(sid, r.stateId)
  /\ IF r.kind = "code"
       THEN /\ ~Falsy(r.arg)
            /\ IF enabledReal THEN r.arg = server[r.stateId].code
                              ELSE Trim(r.arg) = mockSessions[sid][r.stateId].code
       ELSE /\ ~Falsy(r.arg)
            /\ enabledReal => r.arg = ServerPassword

\* C9: verify succeeds only for a stateId the Session knows and on the
\* right code or password, so an unknown stateId, a wrong code and a
\* missing or wrong two-step password are rejected; a verify that returns
\* an error leaves a request neither pending nor re-issued; and no pending
\* login changes in a step that returns an error.
C9_FailedVerifyChangesNothing ==
  [][ /\ mockSessions' # mockSessions =>
           ret'.op \in {"sendCode", "verify", "logout"} /\ ret'.ok
      /\ (ret' # ret /\ ret'.op = "verify" /\ ret'.ok) =>
           \E sid \in 1..MaxSessions : GoodCredential(sid, ret')
      /\ (ret' # ret /\ ret'.op = "verify" /\ ~ret'.ok) =>
           /\ Len(pending') <= Len(pending)
           /\ mockSessions' = mockSessions ]_vars

\* C9 witness: a wrong code was refused and the login is still code_sent
C9_Witness ==
  /\ ret.op = "verify" /\ ~ret.ok
  /\ ret.error \in {"wrong code", "PHONE_CODE_INVALID"}
  /\ \E sid \in 1..MaxSessions :
       StatusOf(mockSessions, sid, ret.stateId) = "code_sent"

\* C2: a successful switchAccount to another account leaves every enabled
\* send task (with a valid cron expression) with a job made by this call,
\* and every enabled listen task that names no account with a listener on
\* the Session of the new active account.
C2_SwitchRestartsAll ==
  [][ (ret'.op = "switchAccount" /\ ret'.ok /\ activeAccountId' # activeAccountId) =>
        \A i \in DOMAIN tasks' :
          LET task == tasks'[i] IN
          /\ (task.type = "send" /\ task.enabled
                /\ ValidCron(NormalizeCron(task.cron))) =>
               /\ task.id \in DOMAIN scheduled'
               /\ scheduled'[task.id] > Len(jobs)
          /\ (task.type = "listen" /\ task.enabled /\ task.accountId = Null) =>
               /\ task.id \in DOMAIN activeListeners'
               /\ listeners'[activeListeners'[task.id]].sid = Memoized(activeAccountId')
    ]_vars

\* C3 as claimed: for every listen task, a message id is notified at most
\* once, and exactly once when it is marked processed for the task.
C3_OneNotificationPerId ==
  \A t \in 1..MaxTasks, m \in 1..MaxMessages :
    /\ notified[t, m] <= 1
    /\ m \in Marked(t) => notified[t, m] = 1

\* C3: as long as a listen task is not deleted, every message id delivered
\* for it (by whichever of its listeners, however often) is notified exactly
\* once and no other id is notified; after deleteTask, which discards the
\* processed ids, a batch still in flight is notified once more, so an id
\* is notified at most twice, and twice only if it was in the channel when
\* the task was deleted.
C3_OneNotificationPerIdUntilDeleted ==
  \A t \in 1..MaxTasks, m \in 1..MaxMessages :
    IF t \notin DOMAIN deletedAt
      THEN notified[t, m] = (IF m \in Marked(t) THEN 1 ELSE 0)
      ELSE /\ notified[t, m] <= 2
           /\ notified[t, m] = 2 => m <= deletedAt[t]
           /\ m \in Marked(t) => notified[t, m] >= 1

\* C3 witness: a batch delivered for a task that still exists held an id
\* that was already marked, and the id was skipped
C3_Witness ==
  /\ ret.op = "deliver"
  /\ ret.taskId \notin DOMAIN deletedAt
  /\ ret.fresh # ret.ids
  /\ \A m \in ret.ids : notified[ret.taskId, m] = 1

\* C4 as claimed: once deleteTask has returned, no message that arrives in
\* the channel afterwards is notified for the task.
C4_NoNotificationAfterDelete ==
  \A t \in DOMAIN deletedAt, m \in 1..MaxMessages :
    m > deletedAt[t] => notified[t, m] = 0

\* C4: after deleteTask the task has no registered listener and every
\* listener of the task has its stop flag set; a stop flag stays set, and a
\* listener whose flag is set begins no new cycle; so the only notification
\* a deleted task can still get comes from the completion of a fetch that
\* was in flight.
C4_NoCycleBeginsAfterDelete ==
  [][ /\ \A t \in DOMAIN deletedAt' :
           /\ t \notin DOMAIN activeListeners'
           /\ \A l \in DOMAIN listeners' :
                listeners'[l].taskId = t => listeners'[l].stop
      /\ \A l \in DOMAIN listeners :
           listeners[l].stop =>
             /\ listeners'[l].stop
             /\ listeners[l].pc # "fetch" => listeners'[l].pc # "fetch"
      /\ \A t \in DOMAIN deletedAt, m \in 1..MaxMessages :
           notified'[t, m] > notified[t, m] =>
             \E l \in DOMAIN listeners :
               /\ listeners[l].taskId = t
               /\ listeners[l].pc = "fetch" /\ listeners'[l].pc = "delay"
    ]_vars

\* C4 witness: a message that arrived after the task was deleted has been
\* notified by the cycle that was in flight
C4_Witness ==
  \E t \in DOMAIN deletedAt, m \in 1..MaxMessages :
    /\ m > deletedAt[t]
    /\ notified[t, m] = 1
    /\ \A l \in DOMAIN listeners :
         listeners[l].taskId = t => listeners[l].pc \in {"delay", "done"}

\* C7: runTaskNow hands the task's message to the client exactly when the
\* Session reported authorized; when the Session reported not authorized
\* the call fails with the message that says so; it succeeds only after
\* handing the message over; the task's enabled flag and cron play no part.
C7_RunTaskNowSendsIffAuthorized ==
  ret.op = "runTaskNow" =>
    /\ ret.handed <=> ret.authorized
    /\ ret.ok => ret.handed
    /\ (~ret.authorized /\ ret.message \notin {"no task", "no session"}) =>
         (~ret.ok /\ ret.message = "not authorized")

\* C7 witness: a disabled send task with an invalid cron expression was run
\* and its message sent
C7_Witness ==
  /\ ret.op = "runTaskNow" /\ ret.ok /\ ret.handed
  /\ ret.task.type = "send" /\ ~ret.task.enabled
  /\ ~ValidCron(NormalizeCron(ret.task.cron))

\* C10: when the callback of a firing of a runOnce task completes, the job
\* that fired is stopped, the schedule map has no entry for the task, the
\* task (while it is in the list) has enabled = false, and the tasks file
\* holds the list; after a send that succeeded and after one that threw.
C10_RunOnceDisabledAfterFiring ==
  [][ (Len(firing') < Len(firing) /\ ret'.runOnce) =>
        /\ jobs'[ret'.job].stopped
        /\ ret'.taskId \notin DOMAIN scheduled'
        /\ \A i \in DOMAIN tasks' :
             tasks'[i].id = ret'.taskId => ~tasks'[i].enabled
        /\ tasksFile' = tasks'
    ]_vars

\* C10 witness: the firing of a runOnce task has thrown, and the task is
\* in the list, disabled
C10_Witness ==
  /\ ret.op = "fire" /\ ret.runOnce /\ ~ret.ok
  /\ \E i \in DOMAIN tasks : tasks[i].id = ret.taskId /\ ~tasks[i].enabled
  /\ tasksFile = tasks

\* C11: when the send of a firing throws, the callback catches it and sends
\* the failure notification; for a task without runOnce the step stops no
\* job and changes neither the schedule map nor the task list, so the task
\* stays enabled and scheduled, and other firings in flight are kept.
C11_FailedFiringKeepsTask ==
  [][ (Len(firing') < Len(firing) /\ ~ret'.ok) =>
        /\ ret'.notice = "failed"
        /\ Len(firing') = Len(firing) - 1
        /\ ~ret'.runOnce =>
              /\ jobs' = jobs
              /\ scheduled' = scheduled
              /\ tasks' = tasks /\ tasksFile' = tasksFile
    ]_vars

\* C11 witness: the firing of a task without runOnce has thrown, the task
\* is still enabled and scheduled on the job that fired, and that job is
\* firing again
C11_Witness ==
  /\ ret.op = "fire" /\ ~ret.ok /\ ~ret.runOnce /\ ret.notice = "failed"
  /\ \E i \in DOMAIN tasks : tasks[i].id = ret.taskId /\ tasks[i].enabled
  /\ ret.taskId \in DOMAIN scheduled /\ scheduled[ret.taskId] = ret.job
  /\ ~jobs[ret.job].stopped
  /\ Len(firing) = 1 /\ firing[1].job = ret.job

\* C12: a cron text of 5 fields is normalized to the same text with the
\* seconds field "0" and a blank in front, which has 6 fields, the given
\* five after "0", and is accepted when the given fields are valid:
\* "30 8 * * *" becomes "0 30 8 * * *"; a text of 6 fields is used as it
\* is (after trim).
C12_FiveFieldCronNormalized ==
  ret.op = "cronExpr" =>
    LET given == Trim(ret.arg)
        fields == SplitFields(given) IN
    /\ Len(fields) = 5 =>
         /\ ret.cronExpr = <<"0", " ">> \o given
         /\ SplitFields(ret.cronExpr) = << <<"0">> >> \o fields
         /\ ret.valid <=> \A i \in 1..5 : fields[i] \in CronTokens
    /\ Len(fields) = 6 =>
         /\ ret.cronExpr = given
         /\ SplitFields(ret.cronExpr) = fields
    /\ ret.arg = FiveFieldCron =>
         /\ ret.cronExpr =
              <<"0", " ", "3", "0", " ", "8", " ", "*", " ", "*", " ", "*">>
         /\ ret.valid

\* C12 witness: "30 8 * * *" has been normalized
C12_Witness ==
  /\ ret.op = "cronExpr" /\ ret.arg = FiveFieldCron
  /\ Len(SplitFields(ret.cronExpr)) = 6

\* C13 (as claimed): createTask and updateTask do not accept a send task
\* whose cron expression is invalid after the upgrade: no send task with
\* such an expression is in the task list, and none is scheduled.
C13_InvalidCronNotAccepted ==
  /\ \A i \in DOMAIN tasks :
       tasks[i].type = "send" => ValidCron(NormalizeCron(tasks[i].cron))
  /\ \A j \in DOMAIN jobs : ValidCron(NormalizeCron(jobs[j].task.cron))

\* C14: a createTask of type send that gives neither enabled nor runOnce
\* appends a task with enabled = true and runOnce = false, under an id no
\* task had before, to the list getTasks() returns and to the tasks file;
\* and an id leaves the list getTasks() returns only by a deleteTask of it.
C14_CreatedSendTaskDefaults ==
  [][ /\ ( /\ nextTaskId' # nextTaskId
           /\ ret'.task.type = "send"
           /\ DOMAIN ret'.data \cap {"enabled", "runOnce"} = {} ) =>
          /\ ret'.task.enabled /\ ~ret'.task.runOnce
          /\ ret'.task.id \notin 1..nextTaskId
          /\ GetTasks(tasks', Null) = Append(GetTasks(tasks, Null), ret'.task)
          /\ tasksFile' = tasks'
      /\ \A i \in DOMAIN tasks :
           (\A k \in DOMAIN GetTasks(tasks', Null) :
              GetTasks(tasks', Null)[k].id # tasks[i].id) =>
             ret' = [op |-> "deleteTask", taskId |-> tasks[i].id, ok |-> TRUE]
    ]_vars

\* C14 witness: a send task created without enabled and runOnce has fired
\* and failed, and getTasks() still returns it, enabled
C14_Witness ==
  /\ ret.op = "fire" /\ ~ret.ok
  /\ \E k \in DOMAIN GetTasks(tasks, Null) :
       LET t == GetTasks(tasks, Null)[k] IN
       t.id = ret.taskId /\ t.enabled /\ ~t.runOnce /\ t.cron = DefaultCron

\* C15: when a cron job of a send task with accountId = null fires, the
\* send goes through the Session of the account that is active at that
\* moment (through none when no account is active), and a send that
\* succeeded went through a Session.
C15_NullAccountFiresOnActive ==
  [][ /\ Len(firing') > Len(firing) =>
           LET f == firing'[Len(firing')] IN
           jobs[f.job].task.accountId = Null =>
             IF activeAccountId = Null THEN f.sid = 0
             ELSE \E e \in Range(sessions') :
                    e.id = activeAccountId /\ e.sid = f.sid
      /\ (Len(firing') < Len(firing) /\ ret'.ok) =>
           \E i \in DOMAIN firing :
             /\ firing[i].job = ret'.job /\ firing[i].sid # 0
             /\ firing' = RemoveAt(firing, i)
    ]_vars

\* C15 witness: account "1" was registered first and active, the last call
\* switched to account "2", and the job of a task with accountId = null is
\* firing on the Session of account "2"
C15_Witness ==
  /\ ret.op = "switchAccount" /\ ret.ok
  /\ activeAccountId = <<"2">>
  /\ \E i \in DOMAIN firing :
       /\ jobs[firing[i].job].task.accountId = Null
       /\ \E e \in Range(sessions) : e.id = <<"2">> /\ e.sid = firing[i].sid

\* the Session instance sid is the one of account id
SessionIsOf(ss, sid, id) == \E e \in Range(ss) : e.id = id /\ e.sid = sid

\* C16: a cron firing of a task with an explicit accountId goes through
\* the Session of that account, and through no Session (so that it fails)
\* when the account is not registered; a listener started for a listen
\* task with an explicit accountId runs on the Session of that account,
\* and when the account is not registered createTask and updateTask leave
\* the task without a listener.
C16_ExplicitAccountOnly ==
  [][ /\ Len(firing') > Len(firing) =>
           LET f == firing'[Len(firing')]
               id == jobs[f.job].task.accountId IN
           id # Null =>
             IF HasAccount(id) THEN SessionIsOf(sessions', f.sid, id)
                               ELSE f.sid = 0
      /\ (Len(firing') < Len(firing) /\ ret'.ok) =>
           \E i \in DOMAIN firing :
             /\ firing[i].job = ret'.job /\ firing[i].sid # 0
             /\ firing' = RemoveAt(firing, i)
      /\ Len(listeners') > Len(listeners) =>
           LET l == listeners'[Len(listeners')]
               id == tasks'[TaskIndex(tasks', l.taskId)].accountId IN
           id # Null => HasAccount(id) /\ SessionIsOf(sessions', l.sid, id)
      /\ tasks' # tasks =>
           \A i \in DOMAIN tasks' :
             ( /\ tasks'[i].type = "listen"
               /\ tasks'[i].accountId # Null
               /\ ~HasAccount(tasks'[i].accountId) ) =>
               tasks'[i].id \notin DOMAIN activeListeners'
    ]_vars

\* C16 witness: account "1" is active and has a Session, account "2" is
\* not registered, and the firing of a send task bound to "2" has failed
C16_Witness ==
  /\ ret.op = "fire" /\ ~ret.ok
  /\ jobs[ret.job].task.accountId = <<"2">>
  /\ ~HasAccount(<<"2">>)
  /\ activeAccountId = <<"1">> /\ SessionOf(Null) # 0

\* C17: when getAllAccountsHealth returns, its result holds exactly one
\* record per registered account, in the order of the registry; the record
\* of an account whose query timed out is {mode: 'timeout', connected:
\* false, authorized: false}, that of an account whose query threw is an
\* error record; and a call that awaits a query always returns.
C17_AggregateHealthCompletes ==
  /\ [][ (healthCall.pc = "await" /\ healthCall'.pc = "done") =>
           LET result == ret'.result IN
           /\ ret'.op = "getAllAccountsHealth"
           /\ Len(result) = Len(accounts')
           /\ \A i \in DOMAIN result :
                /\ result[i].id = accounts'[i].id
                /\ result[i].outcome = "timeout" =>
                     result[i].health = [mode |-> "timeout", connected |-> FALSE,
                                         authorized |-> FALSE]
                /\ result[i].outcome = "throw" =>
                     /\ result[i].health.mode = "error"
                     /\ ~result[i].health.connected
                     /\ ~result[i].health.authorized
       ]_vars
  /\ (healthCall.pc = "await") ~> (healthCall.pc = "done")

\* C17 witness: the call has returned two records, the first for a query
\* that timed out, the second for one that answered
C17_Witness ==
  /\ healthCall.pc = "done" /\ ret.op = "getAllAccountsHealth"
  /\ Len(ret.result) = 2 /\ Len(accounts) = 2
  /\ ret.result[1].outcome = "timeout" /\ ret.result[1].health.mode = "timeout"
  /\ ret.result[2].outcome = "answer"

\* the ids of the accounts whose health query the call in progress has
\* started
QueriesStarted ==
  { healthCall.result[i].id : i \in DOMAIN healthCall.result }
    \cup (IF healthCall.pc = "await" THEN {accounts[healthCall.idx].id} ELSE {})

\* C18 (as claimed): the queries are started together: while the call
\* awaits the query of one account, the query of every account that was
\* registered when the call began has been started.
C18_QueriesStartTogether ==
  healthCall.pc = "await" =>
    \A i \in 1..healthCall.n0 : accounts[i].id \in QueriesStarted

\* C18 (amended): the queries are started in turn: while the call awaits
\* the query of the account at position idx, one record is pushed for
\* each account before it, and the queries started are exactly those of
\* the accounts up to idx; the query of a later account is not started
\* before this one has answered, thrown or timed out.
C18_QueriesStartInTurn ==
  healthCall.pc = "await" =>
    /\ healthCall.idx \in DOMAIN accounts
    /\ Len(healthCall.result) = healthCall.idx - 1
    /\ \A i \in DOMAIN accounts :
         accounts[i].id \in QueriesStarted <=> i <= healthCall.idx

\* C18 witness: two accounts were registered when the call began, the
\* call awaits the query of the first, and that of the second is not
\* started
C18_Witness ==
  /\ healthCall.pc = "await" /\ healthCall.idx = 1 /\ healthCall.n0 = 2
  /\ accounts[2].id \notin QueriesStarted

\* the listen task the last updateTask changed, if it did
UpdatedListenTask ==
  IF ret.op = "updateTask" /\ ret.ok /\ TaskIndex(tasks, ret.taskId) # 0
       /\ tasks[TaskIndex(tasks, ret.taskId)].type = "listen"
    THEN { tasks[TaskIndex(tasks, ret.taskId)] }
    ELSE {}

\* C19 (as claimed): after updateTask on a listen task a listener is
\* registered for the task exactly when the updated task is enabled.
C19_ListenerIffEnabled ==
  \A t \in UpdatedListenTask : t.enabled <=> t.id \in DOMAIN activeListeners

\* C19 (amended): after updateTask on a listen task every listener the
\* task had before has its stop flag set; a listener is registered for the
\* task exactly when the updated task is enabled and getSession returns a
\* Session for its account, and then it is one new listener, on that
\* Session, with the stop flag clear.
C19_ListenerIffEnabledWithSession ==
  \A t \in UpdatedListenTask :
    LET registered == t.id \in DOMAIN activeListeners IN
    /\ registered <=> (t.enabled /\ SessionOf(TaskAccount(t)) # 0)
    /\ \A l \in DOMAIN listeners :
         listeners[l].taskId = t.id =>
           IF registered /\ activeListeners[t.id] = l
             THEN /\ ~listeners[l].stop
                  /\ listeners[l].sid = SessionOf(TaskAccount(t))
                  /\ l = Len(listeners)
             ELSE listeners[l].stop

\* C19 witness: updateTask has replaced the listener of an enabled listen
\* task: the old one is stopped, the new one is registered
C19_Witness ==
  \E t \in UpdatedListenTask :
    /\ t.enabled /\ t.id \in DOMAIN activeListeners
    /\ activeListeners[t.id] = 2
    /\ listeners[1].taskId = t.id /\ listeners[1].stop
    /\ ~listeners[2].stop

\* C20 (as claimed): a sendMessage whose ensureConnected returned false,
\* or whose Session has not completed its login, throws and has not
\* called client.sendMessage.
C20_SendRequiresAuthorizedConnected ==
  (ret.op = "sendMessage" /\ (~ret.ensured \/ ~ret.authorized)) =>
    ~ret.ok /\ ~ret.handed

\* C21 (as claimed): every sendNow and every runTaskNow makes exactly one
\* notify call: the success one when it returned success, the failure one
\* when it failed.
C21_ManualSendAlwaysNotifies ==
  ret.op \in {"sendNow", "runTaskNow"} =>
    ret.notice = IF ret.ok THEN "sent" ELSE "failed"

\* C22: switchAccount with an id that is not registered returns false and
\* leaves the accounts with their active flags, activeAccountId, the accounts
\* file, the cron jobs with the schedule map and the listeners with their
\* registry as they were.
C22_UnknownSwitchChangesNothing ==
  [][ (ret' # ret /\ ret'.op = "switchAccount" /\ ~HasAccount(ret'.arg)) =>
        /\ ~ret'.ok
        /\ UNCHANGED <<accounts, activeAccountId, accountsFile, jobs, scheduled,
                       listeners, activeListeners>>
    ]_vars

C22_Witness ==
  /\ ret.op = "switchAccount" /\ ~ret.ok
  /\ activeAccountId # Null
  /\ DOMAIN scheduled # {}

\* a step of rescheduleAll: the reschedule of a successful switchAccount
RescheduleStep ==
  ret'.op = "switchAccount" /\ ret'.ok /\ (ret' # ret \/ jobs' # jobs)

\* the ids of the enabled send tasks with a valid cron expression
Schedulable(taskList) ==
  { taskList[i].id : i \in { k \in DOMAIN taskList :
      /\ taskList[k].enabled
      /\ taskList[k].type = "send"
      /\ ValidCron(NormalizeCron(taskList[k].cron)) } }

\* C23 (as claimed): after rescheduleAll the schedule map holds exactly the
\* ids of the enabled send tasks with a valid cron expression, and every job
\* created before the call is stopped.
C23_RescheduleReplacesAllJobs ==
  [][ RescheduleStep =>
        /\ DOMAIN scheduled' = Schedulable(tasks')
        /\ \A j \in DOMAIN jobs : jobs'[j].stopped
    ]_vars

\* C24 (as claimed): in every reachable state every entry of the schedule
\* map belongs to a task that is in the task list, enabled and a send task.
C24_ScheduledTasksQualify ==
  \A id \in DOMAIN scheduled :
    \E i \in DOMAIN tasks :
      /\ tasks[i].id = id
      /\ tasks[i].enabled
      /\ tasks[i].type = "send"

\* C25 (as claimed): when ensureConnected has opened the transport and
\* returned true, the session file has been written.
C25_ConnectPersistsSession ==
  (sendCall.pc = "transport" /\ sendCall.ensured /\ sendCall.attempt > 0) =>
    transport.saved

\* C25: ensureConnected does not write the session file: a connect attempt
\* that succeeds leaves the file as it was, and the file is written only for
\* a Session whose login has been completed.
C25_OnlyLoginPersistsSession ==
  /\ [][ (sendCall.pc = "connect" /\ sendCall'.pc = "transport"
            /\ sendCall'.ensured) =>
           (transport'.connected /\ transport'.saved = transport.saved) ]_vars
  /\ [](transport.saved => transport.authorized)

C25_Witness ==
  /\ sendCall.pc = "transport" /\ sendCall.ensured /\ sendCall.attempt > 0
  /\ ~transport.saved

\* C26: a sendMessage call that finds the Session connected makes no connect
\* attempt; one that finds it disconnected makes at most MaxRetries attempts,
\* waits 2000 ms times the number of the failed attempt before the next one,
\* goes on to the send at the first attempt that succeeds, has
\* ensureConnected return false only after MaxRetries failed attempts, and
\* always leaves ensureConnected.
C26_EnsureConnectedTerminates ==
  /\ [](sendCall.attempt <= MaxRetries)
  /\ [](sendCall.pc = "delay" =>
          /\ sendCall.attempt < MaxRetries
          /\ sendCall.wait = 2000 * sendCall.attempt)
  /\ []((sendCall.pc = "transport" /\ ~sendCall.ensured) =>
          (sendCall.attempt = MaxRetries /\ ~transport.connected))
  /\ [][ (sendCall.pc \in {"idle", "done"} /\ transport.connected) =>
           sendCall'.pc \notin {"connect", "delay"} ]_vars
  /\ [][ (sendCall.pc = "connect" /\ transport'.connected) =>
           (sendCall'.pc = "transport" /\ sendCall'.ensured) ]_vars
  /\ (sendCall.pc \in {"connect", "delay"}) ~> (sendCall.pc = "transport")

C26_Witness ==
  /\ sendCall.pc = "transport" /\ ~sendCall.ensured
  /\ sendCall.attempt = MaxRetries

\* the fetch of a cycle of listener l returns in this step
FetchReturns(l) ==
  /\ l \in DOMAIN listeners
  /\ listeners[l].pc = "fetch" /\ listeners'[l].pc = "delay"

\* C27 (as claimed): the callback of a listener is never called for a
\* message whose id is at most the newest id the channel had when the
\* monitoring started, whether the baseline fetch succeeded or failed.
C27_NeverReplaysHistory ==
  [][ \A l \in 1..MaxListeners :
        FetchReturns(l) => \A m \in ret'.ids : m > listeners[l].base ]_vars

\* C28: in one monitorChannel loop lastMessageId never decreases; the ids
\* the callback is called with in one cycle are strictly increasing and all
\* above the lastMessageId the cycle began with, and the cycle leaves
\* lastMessageId at the last of them, so over the whole loop the callback is
\* called in strictly increasing id order and at most once per id.
C28_DeliveryInIncreasingOrder ==
  [][ \A l \in DOMAIN listeners :
        /\ listeners'[l].last >= listeners[l].last
        /\ FetchReturns(l) =>
             LET called == ret'.called IN
             /\ \A i \in DOMAIN called : called[i] > listeners[l].last
             /\ \A i, j \in DOMAIN called : i < j => called[i] < called[j]
             /\ listeners'[l].last =
                  IF called = <<>> THEN listeners[l].last ELSE called[Len(called)]
    ]_vars

C28_Witness ==
  /\ ret.op = "deliver" /\ Len(ret.called) = 2
  /\ \E l \in DOMAIN listeners : listeners[l].pc = "delay" /\ listeners[l].last = 2

\* C29: a loop that is in a cycle ends only from the test at the top of a
\* cycle and only with the stop flag set; the fetch of a cycle is followed by
\* the wait whatever the flag says; and a loop whose flag is not set begins
\* another cycle after every wait.
C29_LoopEndsOnlyOnStop ==
  /\ [][ \A l \in DOMAIN listeners :
           /\ (listeners[l].pc \in {"fetch", "delay"} /\ listeners'[l].pc = "done") =>
                (listeners[l].pc = "delay" /\ listeners[l].stop)
           /\ listeners[l].pc = "fetch" => listeners'[l].pc \in {"fetch", "delay"}
     ]_vars
  /\ \A l \in 1..MaxListeners :
       (l \in DOMAIN listeners /\ listeners[l].pc = "delay" /\ ~listeners[l].stop)
         ~> (l \in DOMAIN listeners
               /\ (listeners[l].pc = "fetch" \/ listeners[l].stop))

C29_Witness ==
  \E l \in DOMAIN listeners :
    /\ ~listeners[l].stop /\ listeners[l].pc = "fetch"
    /\ listeners[l].last > listeners[l].base

\* C30: the step that sets a listener's stop flag changes nothing else of
\* the listener and leaves it out of the registry; afterwards the flag stays
\* set, a fetch in flight still goes on to its wait, no cycle begins, and the
\* loop ends.
C30_StopIsCooperative ==
  /\ [][ \A l \in DOMAIN listeners :
           /\ (~listeners[l].stop /\ listeners'[l].stop) =>
                /\ listeners'[l] = [listeners[l] EXCEPT !.stop = TRUE]
                /\ \A t \in DOMAIN activeListeners' : activeListeners'[t] # l
           /\ listeners[l].stop =>
                /\ listeners'[l].stop
                /\ listeners[l].pc # "fetch" => listeners'[l].pc # "fetch"
                /\ listeners[l].pc = "fetch" => listeners'[l].pc \in {"fetch", "delay"}
     ]_vars
  /\ \A l \in 1..MaxListeners :
       (l \in DOMAIN listeners /\ listeners[l].stop)
         ~> (l \in DOMAIN listeners /\ listeners[l].pc = "done")

\* C30 witness: the cycle that was in flight when the flag was set has
\* handed a new message to the callback
C30_Witness ==
  \E l \in DOMAIN listeners :
    /\ listeners[l].stop /\ listeners[l].pc = "delay"
    /\ ret.op = "deliver" /\ ret.taskId = listeners[l].taskId
    /\ ret.fresh # {} /\ listeners[l].last \in ret.fresh

\* C31 (as claimed): two listeners of the same task never have the fetch of
\* a cycle in flight at the same moment.
C31_OneCycleInFlightPerTask ==
  \A l1, l2 \in DOMAIN listeners :
    (l1 # l2 /\ listeners[l1].taskId = listeners[l2].taskId) =>
      ~(listeners[l1].pc = "fetch" /\ listeners[l2].pc = "fetch")

\* C31: of the listeners of one task at most one has its stop flag not set,
\* and that one is the listener in the registry; a second cycle in flight
\* for the task belongs to a listener that has been stopped.
C31_OneRunningListenerPerTask ==
  \A l1, l2 \in DOMAIN listeners :
    /\ (l1 # l2 /\ listeners[l1].taskId = listeners[l2].taskId) =>
         (listeners[l1].stop \/ listeners[l2].stop)
    /\ ~listeners[l1].stop =>
         /\ listeners[l1].taskId \in DOMAIN activeListeners
         /\ activeListeners[listeners[l1].taskId] = l1

C31_Witness ==
  \E l1, l2 \in DOMAIN listeners :
    /\ l1 # l2 /\ listeners[l1].taskId = listeners[l2].taskId
    /\ listeners[l1].stop /\ ~listeners[l2].stop
    /\ listeners[l1].pc = "fetch" /\ listeners[l2].pc = "fetch"

\* C32: a cycle whose fetch fails calls the callback with nothing, leaves
\* lastMessageId as it was and goes on to the wait; a cycle whose fetch
\* succeeds hands over every message of the channel above lastMessageId,
\* those that arrived while the fetch was failing included.
C32_CycleErrorIsCaught ==
  [][ \A l \in DOMAIN listeners :
        (listeners[l].pc = "fetch" /\ listeners'[l].pc # "fetch") =>
          IF ret'.failed
            THEN /\ ret'.called = <<>>
                 /\ listeners'[l] = [listeners[l] EXCEPT !.pc = "delay"]
            ELSE /\ Range(ret'.called) =
                      { m \in 1..channel[listeners[l].channel] : m > listeners[l].last }
                 /\ listeners'[l].pc = "delay"
    ]_vars

\* C32 witness: the cycle after a failed one has delivered a message
C32_Witness ==
  /\ ret.op = "deliver" /\ ~ret.failed /\ ret.retry
  /\ ret.fresh # {}

\* C33: loadAccounts makes at most MaxAttempts passes and sleeps 1000 ms
\* times the number of the pass after a failed one; the loading never changes
\* a file that is there, and writes the empty list only in the last pass of
\* a call that finds the file missing; every call returns, and the loading
\* as a whole, with its delayed reloads, comes to an end.
C33_LoadAccountsTerminates ==
  /\ [](loadCall.attempt <= MaxAttempts /\ loadCall.reloads <= ReloadTimers)
  /\ [](loadCall.pc = "sleep" =>
          /\ loadCall.attempt < MaxAttempts
          /\ loadCall.wait = 1000 * loadCall.attempt)
  /\ [][ loadCall' # loadCall =>
           /\ accountsFile # Absent => accountsFile' = accountsFile
           /\ accountsFile' # accountsFile =>
                (accountsFile' = <<>> /\ loadCall.attempt = MaxAttempts)
     ]_vars
  /\ (loadCall.pc # "idle") ~> (loadCall.pc = "idle")
  /\ <>[](loadCall.pc = "idle"
            /\ (loadCall.armed => loadCall.reloads = ReloadTimers))

C33_Witness ==
  /\ ret.op = "loadAccounts" /\ ret.wrote /\ ret.attempt = MaxAttempts
  /\ accountsFile = <<>> /\ loadCall.pc = "idle" /\ loadCall.armed

\* C34 (as claimed): a job of a runOnce task never has two firings awaiting
\* executeCallback at the same moment.
C34_RunOnceFiresOncePerJob ==
  \A i, k \in DOMAIN firing :
    (i # k /\ firing[i].job = firing[k].job) => ~jobs[firing[i].job].task.runOnce

\* C35 (as claimed): every job that has not been stopped is the job the
\* schedule map holds under the id of its task.
C35_LiveJobsAreRegistered ==
  \A j \in DOMAIN jobs :
    ~jobs[j].stopped =>
      /\ jobs[j].task.id \in DOMAIN scheduled
      /\ scheduled[jobs[j].task.id] = j

\* C36 (as claimed): a sendMessage and a getHealth on the same Session never
\* both have a client.connect() pending.
C36_OneConnectInFlight ==
  ~(sendCall.pc = "connect" /\ probe.pc = "connect")

\* C37 (as claimed): no message posted after the baseline is passed over:
\* every id between the baseline of a loop and its lastMessageId has been
\* handed to the callback of the task (and so is in its set of processed
\* ids), however many messages arrived between two cycles.
C37_EveryMessageDelivered ==
  \A l \in DOMAIN listeners :
    listeners[l].pc # "startup" =>
      \A m \in (listeners[l].base + 1)..listeners[l].last :
        m \in Marked(listeners[l].taskId)

\* C38 (as claimed): the processed ids of one channel never suppress a
\* message of another: a message that arrived after the baseline of the loop
\* that hands it to the callback goes without a notification only if another
\* loop on the same channel has already passed its id.
C38_DedupIsPerChannel ==
  ret.op = "deliver" =>
    \A m \in ret.ids \ ret.fresh :
      m > listeners[ret.listener].base =>
      \E k \in DOMAIN listeners \ {ret.listener} :
        /\ listeners[k].channel = listeners[ret.listener].channel
        /\ listeners[k].last >= m

\* C39 (as claimed): no running listener polls through the Session of an
\* account that is no longer registered: the Session of every loop that has
\* not ended and whose stop flag is not set is the registered Session of an
\* account in the registry.
C39_NoListenerOfRemovedAccount ==
  \A l \in DOMAIN listeners :
    (listeners[l].pc # "done" /\ ~listeners[l].stop) =>
      \E e \in Range(sessions) :
        e.sid = listeners[l].sid /\ HasAccount(e.id)

\* C40 (as claimed): runTaskNow called with the id of a listen task hands
\* nothing to Session.sendMessage and returns a failure.
C40_RunTaskNowOnlySends ==
  (ret.op = "runTaskNow" /\ ret.message # "no task") =>
    (ret.task.type = "listen" => (~ret.handed /\ ~ret.ok))

=============================================================================
